---- MODULE Spec2Model ----
(***************************************************************************)
(* A model of the Notepad editor's syntax highlighter (src/main.py):       *)
(* CodeHighlighter, its per-language rule tables, the block-comment scan   *)
(* of highlightBlock, the re-highlighting of a document after an edit and  *)
(* apply_syntax_highlighting, which attaches a highlighter by file suffix,  *)
(* and of its tab widget (ModernTabWidget) with the file operations.       *)
(*                                                                         *)
(* A text is a sequence of one-character strings.  Offsets are 0-based as  *)
(* in the source; the character at offset p of text is text[p + 1].        *)
(***************************************************************************)
EXTENDS Integers, Sequences, FiniteSets, TLC

VARIABLES
  lines,       \* the document: the text of each block (line)
  userState,   \* the state stored with each block: -1 (never set), 0 or 1
  formats,     \* the formats painted on each block, one entry per character
  attached,    \* the highlighters connected to the document, oldest first
  attr,        \* the editor's attribute 'highlighter': index in attached, 0 if absent
  filepath,    \* the editor tab's "filepath" property (NoPath if None)
  runs,        \* the highlightBlock runs of the last operation, in order
  saves,       \* the Save As operations counted so far (SpecMap counts, the others do not)
  tabs,        \* the tabs of the tab widget, left to right
  current,     \* the index of the current tab (0-based)
  files,       \* the content of the files on disk
  lbl_zoom,    \* the percentage the zoom label of the status bar shows
  lastOp,      \* the last operation on the tab widget and what it did
  edText,      \* the text of the editor the find and replace operations work on
  edAnchor,    \* the anchor of that editor's text cursor
  edPosition,  \* the position of that editor's text cursor
  lastFind     \* the last find or replace operation and what it was given

docVars == <<lines, userState, formats, attached, attr, filepath, runs, saves>>
widgetVars == <<tabs, current, files, lbl_zoom, lastOp>>
findVars == <<edText, edAnchor, edPosition, lastFind>>
tabVars == <<tabs, current, files, lbl_zoom, lastOp, edText, edAnchor, edPosition, lastFind>>
vars == <<lines, userState, formats, attached, attr, filepath, runs, saves,
          tabs, current, files, lbl_zoom, lastOp,
          edText, edAnchor, edPosition, lastFind>>

------------------------------------------------------------------------------
(* Characters and the character classes of the rule patterns.              *)

LowerCase ==
  {"a","b","c","d","e","f","g","h","i","j","k","l","m",
   "n","o","p","q","r","s","t","u","v","w","x","y","z"}

UpperCase ==
  {"A","B","C","D","E","F","G","H","I","J","K","L","M",
   "N","O","P","Q","R","S","T","U","V","W","X","Y","Z"}

Digits == {"0","1","2","3","4","5","6","7","8","9"}

Letters == LowerCase \cup UpperCase

\* \w of the pattern language (no Unicode properties are requested)
WordChars == Letters \cup Digits \cup {"_"}

\* \s of the pattern language
SpaceChars == {" ", "\t", "\n", "\r", "\f"}

------------------------------------------------------------------------------
(* Patterns.  A pattern is a tree; Ends(re, text, pos) lists the offsets   *)
(* at which a match of re starting at offset pos can end, in the order a   *)
(* backtracking matcher tries them: the first one is the match reported.   *)

Lit(s) == [t |-> "lit", s |-> s]
Cls(cs) == [t |-> "cls", cs |-> cs, neg |-> FALSE]
NotCls(cs) == [t |-> "cls", cs |-> cs, neg |-> TRUE]
AnyChar == NotCls({"\n"})
Cat(xs) == [t |-> "cat", xs |-> xs]
Alt(xs) == [t |-> "alt", xs |-> xs]
\* max = -1: no upper limit
Rep(x, min, max, lazy) == [t |-> "rep", x |-> x, min |-> min, max |-> max, lazy |-> lazy]
Star(x) == Rep(x, 0, -1, FALSE)
Plus(x) == Rep(x, 1, -1, FALSE)
Opt(x) == Rep(x, 0, 1, FALSE)
LazyStar(x) == Rep(x, 0, -1, TRUE)
LookAhead(x) == [t |-> "la", x |-> x]
WordBoundary == [t |-> "wb"]
\* QRegularExpression of a pattern text that does not compile, "(" for one:
\* the object is constructed, isValid() is false and matching finds nothing
Malformed == [t |-> "invalid"]
isValid(re) == re.t # "invalid"

IsWordAt(text, p) == p >= 0 /\ p < Len(text) /\ text[p + 1] \in WordChars

\* \b holds at offset pos when exactly one of the two neighbours is a word character
AtWordBoundary(text, pos) == IsWordAt(text, pos - 1) # IsWordAt(text, pos)

RECURSIVE Ends(_, _, _)
RECURSIVE CatEnds(_, _, _, _)
RECURSIVE CatOver(_, _, _, _, _)
RECURSIVE AltEnds(_, _, _, _)
RECURSIVE RepEnds(_, _, _, _)
RECURSIVE RepOver(_, _, _, _, _, _)

Ends(re, text, pos) ==
  CASE re.t = "lit" ->
         IF pos + Len(re.s) <= Len(text)
            /\ SubSeq(text, pos + 1, pos + Len(re.s)) = re.s
         THEN <<pos + Len(re.s)>> ELSE <<>>
    [] re.t = "cls" ->
         IF pos < Len(text) /\ ((text[pos + 1] \in re.cs) # re.neg)
         THEN <<pos + 1>> ELSE <<>>
    [] re.t = "wb" -> IF AtWordBoundary(text, pos) THEN <<pos>> ELSE <<>>
    [] re.t = "la" -> IF Ends(re.x, text, pos) # <<>> THEN <<pos>> ELSE <<>>
    [] re.t = "cat" -> CatEnds(re.xs, 1, text, pos)
    [] re.t = "alt" -> AltEnds(re.xs, 1, text, pos)
    [] re.t = "rep" -> RepEnds(re, 0, text, pos)
    [] re.t = "invalid" -> <<>>

\* the ends of xs[i] xs[i+1] ... matched from pos
CatEnds(xs, i, text, pos) ==
  IF i > Len(xs) THEN <<pos>>
  ELSE CatOver(xs, i, text, Ends(xs[i], text, pos), 1)

CatOver(xs, i, text, es, k) ==
  IF k > Len(es) THEN <<>>
  ELSE CatEnds(xs, i + 1, text, es[k]) \o CatOver(xs, i, text, es, k + 1)

AltEnds(xs, i, text, pos) ==
  IF i > Len(xs) THEN <<>>
  ELSE Ends(xs[i], text, pos) \o AltEnds(xs, i + 1, text, pos)

\* n repetitions of re.x are done; an iteration that consumes nothing is not repeated
RepEnds(re, n, text, pos) ==
  LET stop == IF n >= re.min THEN <<pos>> ELSE <<>>
      more == IF re.max = -1 \/ n < re.max
              THEN RepOver(re, n, text, pos, Ends(re.x, text, pos), 1)
              ELSE <<>>
  IN  IF re.lazy THEN stop \o more ELSE more \o stop

RepOver(re, n, text, pos, es, k) ==
  IF k > Len(es) THEN <<>>
  ELSE (IF es[k] > pos THEN RepEnds(re, n + 1, text, es[k]) ELSE <<>>)
       \o RepOver(re, n, text, pos, es, k + 1)

NoMatch == [has |-> FALSE, start |-> -1, end |-> -1]

\* QRegularExpression.match(text, offset): the leftmost match at or after offset;
\* capturedStart() is -1 when there is none
RECURSIVE Match(_, _, _)
Match(re, text, offset) ==
  IF offset > Len(text) THEN NoMatch
  ELSE LET es == Ends(re, text, offset)
       IN  IF es # <<>> THEN [has |-> TRUE, start |-> offset, end |-> es[1]]
           ELSE Match(re, text, offset + 1)

\* the first non-empty match anchored at offset, tried after an empty match there
RECURSIVE FirstAbove(_, _, _)
FirstAbove(es, k, pos) ==
  IF k > Len(es) THEN -1
  ELSE IF es[k] > pos THEN es[k] ELSE FirstAbove(es, k + 1, pos)

\* QRegularExpression.globalMatch(text): the successive matches, each as
\* [start, length].  After an empty match at p the iterator first looks for a
\* non-empty match at p and otherwise goes on from p + 1.
RECURSIVE GlobalFrom(_, _, _, _)
GlobalFrom(re, text, offset, afterEmpty) ==
  IF offset > Len(text) THEN <<>>
  ELSE IF afterEmpty
  THEN LET e == FirstAbove(Ends(re, text, offset), 1, offset)
       IN  IF e # -1
           THEN <<[start |-> offset, length |-> e - offset]>>
                \o GlobalFrom(re, text, e, FALSE)
           ELSE GlobalFrom(re, text, offset + 1, FALSE)
  ELSE LET m == Match(re, text, offset)
       IN  IF ~m.has THEN <<>>
           ELSE <<[start |-> m.start, length |-> m.end - m.start]>>
                \o GlobalFrom(re, text, m.end, m.end = m.start)

globalMatch(re, text) == GlobalFrom(re, text, 0, FALSE)

------------------------------------------------------------------------------
(* Formats and the rule tables of CodeHighlighter.                          *)

\* CodeHighlighter._fmt: a character format with a foreground colour
Fmt(color_name, bold, italic) == [color |-> color_name, bold |-> bold, italic |-> italic]

\* QTextCharFormat(): the empty format of an unpainted character
NoFormat == [color |-> "", bold |-> FALSE, italic |-> FALSE]

kw_fmt == Fmt("#569CD6", TRUE, FALSE)
type_fmt == Fmt("#4EC9B0", TRUE, FALSE)
num_fmt == Fmt("#B5CEA8", FALSE, FALSE)
str_fmt == Fmt("#CE9178", FALSE, FALSE)
comment_fmt == Fmt("#6A9955", FALSE, TRUE)
func_fmt == Fmt("#DCDCAA", FALSE, FALSE)
tag_fmt == Fmt("#569CD6", TRUE, FALSE)
attr_fmt == Fmt("#9CDCFE", FALSE, FALSE)
html_str_fmt == Fmt("#D69D85", FALSE, FALSE)

PythonKeywords ==
  << <<"a","n","d">>, <<"a","s">>, <<"a","s","s","e","r","t">>, <<"b","r","e","a","k">>, 
    <<"c","l","a","s","s">>, <<"c","o","n","t","i","n","u","e">>, <<"d","e","f">>, <<"d","e","l">>, 
    <<"e","l","i","f">>, <<"e","l","s","e">>, <<"e","x","c","e","p","t">>, <<"F","a","l","s","e">>, 
    <<"f","i","n","a","l","l","y">>, <<"f","o","r">>, <<"f","r","o","m">>, 
    <<"g","l","o","b","a","l">>, <<"i","f">>, <<"i","m","p","o","r","t">>, <<"i","n">>, 
    <<"i","s">>, <<"l","a","m","b","d","a">>, <<"N","o","n","e">>, 
    <<"n","o","n","l","o","c","a","l">>, <<"n","o","t">>, <<"o","r">>, <<"p","a","s","s">>, 
    <<"r","a","i","s","e">>, <<"r","e","t","u","r","n">>, <<"T","r","u","e">>, <<"t","r","y">>, 
    <<"w","h","i","l","e">>, <<"w","i","t","h">>, <<"y","i","e","l","d">> >>

PythonTypes ==
  << <<"i","n","t">>, <<"f","l","o","a","t">>, <<"s","t","r">>, <<"l","i","s","t">>, 
    <<"d","i","c","t">>, <<"s","e","t">>, <<"t","u","p","l","e">>, <<"b","o","o","l">>, 
    <<"b","y","t","e","s">> >>

CKeywords ==
  << <<"i","f">>, <<"e","l","s","e">>, <<"s","w","i","t","c","h">>, <<"c","a","s","e">>, 
    <<"f","o","r">>, <<"w","h","i","l","e">>, <<"d","o">>, <<"b","r","e","a","k">>, 
    <<"c","o","n","t","i","n","u","e">>, <<"r","e","t","u","r","n">>, <<"c","l","a","s","s">>, 
    <<"s","t","r","u","c","t">>, <<"p","u","b","l","i","c">>, <<"p","r","i","v","a","t","e">>, 
    <<"p","r","o","t","e","c","t","e","d">>, <<"v","i","r","t","u","a","l">>, 
    <<"o","v","e","r","r","i","d","e">>, <<"s","t","a","t","i","c">>, 
    <<"c","o","n","s","t","e","x","p","r">>, <<"t","e","m","p","l","a","t","e">>, 
    <<"t","y","p","e","n","a","m","e">>, <<"u","s","i","n","g">>, 
    <<"n","a","m","e","s","p","a","c","e">>, <<"n","e","w">>, <<"d","e","l","e","t","e">>, 
    <<"t","r","y">>, <<"c","a","t","c","h">>, <<"t","h","r","o","w">> >>

CTypes ==
  << <<"i","n","t">>, <<"l","o","n","g">>, <<"s","h","o","r","t">>, <<"f","l","o","a","t">>, 
    <<"d","o","u","b","l","e">>, <<"c","h","a","r">>, <<"b","o","o","l">>, <<"v","o","i","d">>, 
    <<"s","i","z","e","_","t">>, <<"a","u","t","o">> >>

JsKeywords ==
  << <<"v","a","r">>, <<"l","e","t">>, <<"c","o","n","s","t">>, <<"i","f">>, <<"e","l","s","e">>, 
    <<"f","o","r">>, <<"w","h","i","l","e">>, <<"d","o">>, <<"s","w","i","t","c","h">>, 
    <<"c","a","s","e">>, <<"b","r","e","a","k">>, <<"c","o","n","t","i","n","u","e">>, 
    <<"f","u","n","c","t","i","o","n">>, <<"r","e","t","u","r","n">>, <<"c","l","a","s","s">>, 
    <<"e","x","t","e","n","d","s">>, <<"i","m","p","o","r","t">>, <<"f","r","o","m">>, 
    <<"e","x","p","o","r","t">>, <<"n","e","w">>, <<"t","r","y">>, <<"c","a","t","c","h">>, 
    <<"f","i","n","a","l","l","y">>, <<"a","w","a","i","t">>, <<"a","s","y","n","c">> >>

PhpKeywords ==
  << <<"e","c","h","o">>, <<"a","r","r","a","y">>, <<"f","u","n","c","t","i","o","n">>, <<"i","f">>, 
    <<"e","l","s","e">>, <<"f","o","r","e","a","c","h">>, <<"f","o","r">>, <<"w","h","i","l","e">>, 
    <<"r","e","t","u","r","n">>, <<"c","l","a","s","s">>, <<"p","u","b","l","i","c">>, 
    <<"p","r","i","v","a","t","e">>, <<"p","r","o","t","e","c","t","e","d">>, 
    <<"n","a","m","e","s","p","a","c","e">>, <<"u","s","e">>, <<"n","e","w">>, <<"t","r","y">>, 
    <<"c","a","t","c","h">>, <<"f","i","n","a","l","l","y">>, <<"t","h","r","o","w">> >>

Lits(words) == [i \in 1..Len(words) |-> Lit(words[i])]

\* CodeHighlighter._word_pattern: \b(?:w1|w2|...)\b
\* (WordPatternAnywhere: the alternation without the word boundaries around it)
WordPatternAnywhere(words) == Alt(Lits(words))
WordPattern(words) == Cat(<<WordBoundary, Alt(Lits(words)), WordBoundary>>)

\* \b[A-Za-z_]\w*(?=\s*\()
FuncPattern ==
  Cat(<<WordBoundary, Cls(Letters \cup {"_"}), Star(Cls(WordChars)),
        LookAhead(Cat(<<Star(Cls(SpaceChars)), Lit(<<"(">>)>>))>>)

\* \b\d+(\.\d+)?\b
NumPattern ==
  Cat(<<WordBoundary, Plus(Cls(Digits)),
        Opt(Cat(<<Lit(<<".">>), Plus(Cls(Digits))>>)), WordBoundary>>)

\* the grave accent (U+0060), which the js rule table quotes template strings with;
\* it is written as a token because a string cannot hold it
GraveAccent == "grave"

\* "q.*?q" for a quote character q
Quoted(q) == Cat(<<Lit(<<q>>), LazyStar(AnyChar), Lit(<<q>>)>>)

\* //.*   and   #.*
SlashComment == Cat(<<Lit(<<"/","/">>), Star(AnyChar)>>)
HashComment == Cat(<<Lit(<<"#">>), Star(AnyChar)>>)

\* /\*   and   \*/
CommentStart == Lit(<<"/","*">>)
CommentEnd == Lit(<<"*","/">>)

\* <\?php|<\?|/\*|\*/|\?>
PhpTags ==
  Alt(<<Lit(<<"<","?","p","h","p">>), Lit(<<"<","?">>), Lit(<<"/","*">>),
        Lit(<<"*","/">>), Lit(<<"?",">">>)>>)

\* \$[A-Za-z_]\w*
PhpVariable == Cat(<<Lit(<<"$">>), Cls(Letters \cup {"_"}), Star(Cls(WordChars))>>)

\* </?[A-Za-z][^>]*>
TagPattern ==
  Cat(<<Lit(<<"<">>), Opt(Lit(<<"/">>)), Cls(Letters), Star(NotCls({">"})), Lit(<<">">>)>>)

\* \b[a-zA-Z-:]+(?=\=)
HtmlAttribute ==
  Cat(<<WordBoundary, Plus(Cls(Letters \cup {"-", ":"})), LookAhead(Lit(<<"=">>))>>)

\* [.#]?[A-Za-z0-9_\-]+(?=\s*\{)
CssSelector ==
  Cat(<<Opt(Cls({".", "#"})), Plus(Cls(WordChars \cup {"-"})),
        LookAhead(Cat(<<Star(Cls(SpaceChars)), Lit(<<"{">>)>>))>>)

\* \b[A-Za-z-]+\s*:
CssProperty ==
  Cat(<<WordBoundary, Plus(Cls(Letters \cup {"-"})), Star(Cls(SpaceChars)), Lit(<<":">>)>>)

\* :\s*[^;]+;
CssValue ==
  Cat(<<Lit(<<":">>), Star(Cls(SpaceChars)), Plus(NotCls({";"})), Lit(<<";">>)>>)

\* /\*.*\*/
CssComment == Cat(<<Lit(<<"/","*">>), Star(AnyChar), Lit(<<"*","/">>)>>)

\* "(\\.|[^"])*"
JsonString ==
  Cat(<<Lit(<<"\"">>),
        Star(Alt(<<Cat(<<Lit(<<"\\">>), AnyChar>>), NotCls({"\""})>>)),
        Lit(<<"\"">>)>>)

\* "(\\.|[^"])*"(?=\s*:)
JsonKey ==
  Cat(<<JsonString, LookAhead(Cat(<<Star(Cls(SpaceChars)), Lit(<<":">>)>>))>>)

\* \b(true|false|null)\b
JsonLiteral ==
  Cat(<<WordBoundary,
        Alt(<<Lit(<<"t","r","u","e">>), Lit(<<"f","a","l","s","e">>), Lit(<<"n","u","l","l">>)>>),
        WordBoundary>>)

\* CodeHighlighter._add_rule: one entry of self.rules
Rule(pattern, fmt) == [re |-> pattern, fmt |-> fmt]

NoBlockComment == [present |-> FALSE]
CStyleBlockComment ==
  [present |-> TRUE, startExpr |-> CommentStart, endExpr |-> CommentEnd, fmt |-> comment_fmt]

\* the language names _build_rules treats alike
\* (CFamilyNamesWithoutCsharp: the names of the C branch with csharp left out)
CFamilyNamesWithoutCsharp ==
  {"cpp", "c", "c++", "cxx", "h", "hpp", "cc", "c++-header", "c-header", "java", "c#"}
CFamilyNames ==
  {"cpp", "c", "c++", "cxx", "h", "hpp", "cc", "c++-header", "c-header", "java", "csharp", "c#"}
ScriptFamilyNames == {"javascript", "js", "typescript", "ts", "jsx", "tsx"}

\* the rule lists _build_rules appends, one per branch, in the order of the _add_rule calls
PythonRules ==
  <<Rule(WordPattern(PythonKeywords), kw_fmt),
    Rule(WordPattern(PythonTypes), type_fmt),
    Rule(FuncPattern, func_fmt),
    Rule(NumPattern, num_fmt),
    Rule(Quoted("\""), str_fmt),
    Rule(Quoted("'"), str_fmt),
    Rule(HashComment, comment_fmt)>>

CFamilyRules ==
  <<Rule(WordPattern(CKeywords), kw_fmt),
    Rule(WordPattern(CTypes), type_fmt),
    Rule(FuncPattern, func_fmt),
    Rule(Quoted("\""), str_fmt),
    Rule(Quoted("'"), str_fmt),
    Rule(NumPattern, num_fmt),
    Rule(SlashComment, comment_fmt)>>

ScriptFamilyRules ==
  <<Rule(WordPattern(JsKeywords), kw_fmt),
    Rule(FuncPattern, func_fmt),
    Rule(Quoted("\""), str_fmt),
    Rule(Quoted("'"), str_fmt),
    Rule(Quoted(GraveAccent), str_fmt),
    Rule(NumPattern, num_fmt),
    Rule(SlashComment, comment_fmt)>>

PhpRules ==
  <<Rule(PhpTags, comment_fmt),
    Rule(WordPattern(PhpKeywords), kw_fmt),
    Rule(PhpVariable, type_fmt),
    Rule(Quoted("\""), str_fmt),
    Rule(Quoted("'"), str_fmt),
    Rule(SlashComment, comment_fmt)>>

HtmlRules ==
  <<Rule(TagPattern, tag_fmt),
    Rule(HtmlAttribute, attr_fmt),
    Rule(Quoted("\""), html_str_fmt),
    Rule(Quoted("'"), html_str_fmt)>>

CssRules ==
  <<Rule(CssSelector, func_fmt),
    Rule(CssProperty, attr_fmt),
    Rule(CssValue, str_fmt),
    Rule(CssComment, comment_fmt)>>

JsonRules ==
  <<Rule(JsonKey, attr_fmt),
    Rule(JsonString, html_str_fmt),
    Rule(JsonLiteral, kw_fmt),
    Rule(NumPattern, num_fmt)>>

XmlRules ==
  <<Rule(TagPattern, tag_fmt),
    Rule(Quoted("\""), html_str_fmt)>>

GenericRules ==
  <<Rule(Quoted("\""), str_fmt),
    Rule(Quoted("'"), str_fmt),
    Rule(NumPattern, num_fmt),
    Rule(SlashComment, comment_fmt),
    Rule(HashComment, comment_fmt)>>

\* CodeHighlighter._build_rules: self.rules and self.multi_line_comment for a language
build_rules(lang) ==
  CASE lang = "python" ->
         [rules |-> PythonRules, multi_line_comment |-> NoBlockComment]
    [] lang \in CFamilyNames ->
         [rules |-> CFamilyRules, multi_line_comment |-> CStyleBlockComment]
    [] lang \in ScriptFamilyNames ->
         [rules |-> ScriptFamilyRules, multi_line_comment |-> CStyleBlockComment]
    [] lang = "php" ->
         [rules |-> PhpRules, multi_line_comment |-> CStyleBlockComment]
    [] lang \in {"html", "htm"} ->
         [rules |-> HtmlRules, multi_line_comment |-> NoBlockComment]
    [] lang = "css" ->
         [rules |-> CssRules, multi_line_comment |-> NoBlockComment]
    [] lang = "json" ->
         [rules |-> JsonRules, multi_line_comment |-> NoBlockComment]
    [] lang = "xml" ->
         [rules |-> XmlRules, multi_line_comment |-> NoBlockComment]
    [] OTHER ->
         [rules |-> GenericRules, multi_line_comment |-> NoBlockComment]

------------------------------------------------------------------------------
(* Bounds and the texts, languages and rule lists the model draws from.     *)

\* the number of blocks of the document, and the longest text of one block
MaxLines == 2
MaxLen == 2

\* the longest text highlightBlock is applied to on its own
MaxLineLen == 3

RECURSIVE TextsOfLen(_, _)
TextsOfLen(A, n) ==
  IF n = 0 THEN {<<>>}
  ELSE {Append(s, c) : s \in TextsOfLen(A, n - 1), c \in A}

TextsUpTo(A, n) == UNION {TextsOfLen(A, k) : k \in 0..n}

DocAlphabet == {"/", "*", "a"}
DocTexts == TextsUpTo(DocAlphabet, MaxLen)

\* "/* a */ code /* b" and "more */ end"
RoundTripFirst ==
  <<"/","*"," ","a"," ","*","/"," ","c","o","d","e"," ","/","*"," ","b">>
RoundTripSecond == <<"m","o","r","e"," ","*","/"," ","e","n","d">>

\* "/**//**/", "*//*" and "abc"
TwoComments == <<"/","*","*","/","/","*","*","/">>
EndThenStart == <<"*","/","/","*">>
PlainWord == <<"a","b","c">>

LineAlphabet == {"/", "*", "a", "1"}
\* {"key": "value"}, classify(x) and class Foo:
JsonLine == <<"{","\"","k","e","y","\"",":"," ","\"","v","a","l","u","e","\"","}">>
ClassifyCall == <<"c","l","a","s","s","i","f","y","(","x",")">>
ClassFoo == <<"c","l","a","s","s"," ","F","o","o",":">>

ExampleTexts ==
  {RoundTripFirst, RoundTripSecond, TwoComments, EndThenStart, PlainWord,
   JsonLine, ClassifyCall, ClassFoo}
LineTexts == TextsUpTo(LineAlphabet, MaxLineLen) \cup ExampleTexts

\* the texts of the block before the one highlightBlock is applied to
ContextTexts == {<<>>, <<"/","*">>, <<"a","/","*">>, RoundTripFirst}

AllTexts == DocTexts \cup LineTexts \cup ContextTexts

\* the language names apply_syntax_highlighting passes to CodeHighlighter
Languages ==
  {"python", "c", "cpp", "java", "javascript", "typescript", "csharp", "php",
   "html", "css", "json", "xml", "generic"}

\* the block states: -1 of a block no highlighter has set, and the two highlightBlock sets
BlockStates == {-1, 0, 1}

------------------------------------------------------------------------------
(* CodeHighlighter objects and highlightBlock.                              *)

\* entries of self.rules that are not in any built-in table: \b\d*\b, a pattern
\* that matches the empty string, and a pattern that does not compile; _add_rule
\* appends either as it does any other
ProbePattern == Cat(<<WordBoundary, Star(Cls(Digits)), WordBoundary>>)
ExtraRule(id) ==
  IF id = "probe" THEN Rule(ProbePattern, num_fmt) ELSE Rule(Malformed, num_fmt)

\* CodeHighlighter.__init__: a highlighter is known by its language; extra lists
\* the entries of self.rules that follow the built-in table
CodeHighlighter(language, extra) == [language |-> language, extra |-> extra]

RulesOf(h) ==
  build_rules(h.language).rules \o [i \in 1..Len(h.extra) |-> ExtraRule(h.extra[i])]

BlockCommentOf(h) == build_rules(h.language).multi_line_comment

\* the lists of extra rules and the highlighters the model uses
KnownHighlighters ==
  {CodeHighlighter(l, <<>>) : l \in Languages}
  \cup {CodeHighlighter(l, <<"probe">>) : l \in {"c", "generic"}}
  \cup {CodeHighlighter("generic", <<"malformed">>)}

\* a call of setFormat; by is "rule" or "block", rule the index in self.rules (0 for block)
Call(start, length, fmt, by, rule) ==
  [start |-> start, length |-> length, fmt |-> fmt, by |-> by, rule |-> rule]

\* the condition under which the rule loop paints a match
\* (AcceptsAny: the condition without its test of the length)
AcceptsAny(start, length) == start >= 0
Accepts(start, length) == start >= 0 /\ length > 0

\* the setFormat calls of one rule: one per match the condition accepts
RECURSIVE RuleCalls(_, _, _, _)
RuleCalls(rule, i, ms, k) ==
  IF k > Len(ms) THEN <<>>
  ELSE (IF Accepts(ms[k].start, ms[k].length)
        THEN <<Call(ms[k].start, ms[k].length, rule.fmt, "rule", i)>> ELSE <<>>)
       \o RuleCalls(rule, i, ms, k + 1)

\* the rule loop: every rule in list order, every match of its global scan
RECURSIVE RuleLoop(_, _, _)
RuleLoop(rules, i, text) ==
  IF i > Len(rules) THEN <<>>
  ELSE RuleCalls(rules[i], i, globalMatch(rules[i].re, text), 1)
       \o RuleLoop(rules, i + 1, text)

\* the number of matches the rule loop visits
RECURSIVE RuleLoopIterations(_, _, _)
RuleLoopIterations(rules, i, text) ==
  IF i > Len(rules) THEN 0
  ELSE Len(globalMatch(rules[i].re, text)) + RuleLoopIterations(rules, i + 1, text)

\* what the rule loop does on a text: its setFormat calls and the matches it visits
LoopResult(rules, text) ==
  [calls |-> RuleLoop(rules, 1, text), visited |-> RuleLoopIterations(rules, 1, text)]

\* the rule loop, tabulated once per highlighter and text
RuleLoopOf == [h \in KnownHighlighters, t \in AllTexts |-> LoopResult(RulesOf(h), t)]

\* the block states highlightBlock sets
ClosedState == 0
OpenState == 1

\* startExpr.match(text).capturedStart(): the first start delimiter, -1 if none
FirstStartIndex(mlc, text) ==
  IF Match(mlc.startExpr, text, 0).has THEN Match(mlc.startExpr, text, 0).start ELSE -1

\* where the block-comment scan starts: at the first start delimiter, or at 0
\* when the previous block ended inside a comment; -1 when there is nothing to scan
\* (InitialStartAlwaysSearch: the start without the test of the previous block's state)
InitialStartAlwaysSearch(mlc, text, previousBlockState) == FirstStartIndex(mlc, text)
InitialStart(mlc, text, previousBlockState) ==
  IF previousBlockState # 1 THEN FirstStartIndex(mlc, text) ELSE 0

\* the offset from which the end delimiter is searched
\* (EndSearchAfterStart: the search begun behind the start delimiter instead)
EndSearchAfterStart(startIndex) == startIndex + 2
EndSearchFrom(startIndex) == startIndex

\* the length of a closed comment: up to the end of the end delimiter
\* (CommentLengthToDelimiter: the length up to the start of the end delimiter instead)
CommentLengthToDelimiter(startIndex, endMatch) == endMatch.start - startIndex
CommentLength(startIndex, endMatch) == endMatch.end - startIndex

\* the next start delimiter after a closed comment, -1 if none
\* (NextStartNone: a scan that stops after the first closed comment)
NextStartNone(mlc, text, endIndex) == -1
NextStart(mlc, text, endIndex) ==
  LET m == Match(mlc.startExpr, text, endIndex)
  IN  IF m.has THEN m.start ELSE -1

\* the length of a comment that stays open at the end of the line
OpenLength(text, startIndex) == Len(text) - startIndex

\* one turn of the while loop of highlightBlock, endMatch being the match of the
\* end delimiter; calls and state are those so far
RECURSIVE BlockLoop(_, _, _, _, _)
BlockTurn(mlc, text, startIndex, calls, endMatch) ==
  IF endMatch.has
  THEN BlockLoop(mlc, text, NextStart(mlc, text, endMatch.end),
                 Append(calls, Call(startIndex, CommentLength(startIndex, endMatch),
                                    mlc.fmt, "block", 0)),
                 ClosedState)
  ELSE [calls |-> Append(calls, Call(startIndex, OpenLength(text, startIndex),
                                     mlc.fmt, "block", 0)),
        state |-> OpenState]

\* the while loop of highlightBlock, the scan being at startIndex
BlockLoop(mlc, text, startIndex, calls, state) ==
  IF startIndex < 0 THEN [calls |-> calls, state |-> state]
  ELSE BlockTurn(mlc, text, startIndex, calls,
                 Match(mlc.endExpr, text, EndSearchFrom(startIndex)))

\* the block-comment part of highlightBlock, after the rule loop
\* (BlockScanFromOwnState: a scan that starts from the state of the block itself)
BlockScanFromOwnState(mlc, text, previousBlockState, currentBlockState) ==
  IF mlc.present
  THEN BlockLoop(mlc, text, InitialStart(mlc, text, currentBlockState), <<>>,
                 currentBlockState)
  ELSE [calls |-> <<>>, state |-> currentBlockState]
BlockScan(mlc, text, previousBlockState, currentBlockState) ==
  IF mlc.present
  THEN BlockLoop(mlc, text, InitialStart(mlc, text, previousBlockState), <<>>,
                 currentBlockState)
  ELSE [calls |-> <<>>, state |-> currentBlockState]

\* the result of a run: the setFormat calls in order, the state the block has
\* afterwards, and the matches the rule loop visited
\* (RunResultBlockFirst: the block-comment calls put before those of the rules)
RunResultBlockFirst(loop, scan) ==
  [calls |-> scan.calls \o loop.calls, state |-> scan.state, visited |-> loop.visited]
RunResult(loop, scan) ==
  [calls |-> loop.calls \o scan.calls, state |-> scan.state, visited |-> loop.visited]

\* CodeHighlighter.highlightBlock on a block with the given text, the state of the
\* previous block and the state the block itself has stored
highlightBlock(h, text, previousBlockState, currentBlockState) ==
  RunResult(RuleLoopOf[h, text],
            BlockScan(BlockCommentOf(h), text, previousBlockState, currentBlockState))

\* QSyntaxHighlighter.setFormat on the format vector of the current block
\* (setFormatUnlessPainted: a setFormat that leaves the characters painted before)
setFormatUnlessPainted(fc, start, count, fmt) ==
  IF start < 0 \/ start >= Len(fc) THEN fc
  ELSE [p \in 1..Len(fc) |->
          IF p - 1 >= start /\ p - 1 < start + count /\ fc[p] = NoFormat THEN fmt ELSE fc[p]]
setFormat(fc, start, count, fmt) ==
  IF start < 0 \/ start >= Len(fc) THEN fc
  ELSE [p \in 1..Len(fc) |->
          IF p - 1 >= start /\ p - 1 < start + count THEN fmt ELSE fc[p]]

RECURSIVE PaintFrom(_, _, _)
PaintFrom(fc, calls, k) ==
  IF k > Len(calls) THEN fc
  ELSE PaintFrom(setFormat(fc, calls[k].start, calls[k].length, calls[k].fmt), calls, k + 1)

Unpainted(text) == [p \in 1..Len(text) |-> NoFormat]

\* the formats a block shows after the calls of one highlightBlock run
Paint(text, calls) == PaintFrom(Unpainted(text), calls, 1)

------------------------------------------------------------------------------
(* The document and its re-highlighting.                                    *)

\* previousBlockState(): -1 for the first block
\* (PreviousBlockStateWrapping: the first block given the state of the last one)
PreviousBlockStateWrapping(us, i) == IF i = 1 THEN us[Len(us)] ELSE us[i - 1]
PreviousBlockState(us, i) == IF i = 1 THEN -1 ELSE us[i - 1]

\* the record of one highlightBlock run
RunRecord(h, i, text, incoming, before, res) ==
  [h |-> h, block |-> i, text |-> text, incoming |-> incoming, before |-> before,
   calls |-> res.calls, outgoing |-> res.state, visited |-> res.visited]

\* the document after one highlightBlock run on block i with result res
AfterRun(h, ls, d, i, incoming, before, res) ==
  [userState |-> [d.userState EXCEPT ![i] = res.state],
   formats |-> [d.formats EXCEPT ![i] = Paint(ls[i], res.calls)],
   runs |-> Append(d.runs, RunRecord(h, i, ls[i], incoming, before, res))]

\* the blocks one highlighter re-highlights: from block i up to block last, and on
\* while the block just done changed its stored state.  d holds userState, formats, runs.
RECURSIVE ReformatBlocks(_, _, _, _, _, _)
ReformatBlock(h, ls, d, i, last, incoming, before, res) ==
  ReformatBlocks(h, ls, AfterRun(h, ls, d, i, incoming, before, res), i + 1, last,
                 res.state # before)

ReformatBlocks(h, ls, d, i, last, force) ==
  IF i > Len(ls) \/ ~(i <= last \/ force) THEN d
  ELSE ReformatBlock(h, ls, d, i, last, PreviousBlockState(d.userState, i), d.userState[i],
                     highlightBlock(h, ls[i], PreviousBlockState(d.userState, i),
                                    d.userState[i]))

\* every connected highlighter reacts to a change, in connection order
RECURSIVE ReformatAll(_, _, _, _, _, _)
ReformatAll(hs, k, ls, d, i, last) ==
  IF k > Len(hs) THEN d
  ELSE ReformatAll(hs, k + 1, ls, ReformatBlocks(hs[k], ls, d, i, last, FALSE), i, last)

\* QSyntaxHighlighter's rehighlight of the whole document, which follows the
\* construction of a highlighter on it
Rehighlight(h, ls, us, fm) ==
  ReformatBlocks(h, ls, [userState |-> us, formats |-> fm, runs |-> <<>>], 1, Len(ls), FALSE)

------------------------------------------------------------------------------
(* File names and apply_syntax_highlighting.                                *)

UpperSeq ==
  <<"A","B","C","D","E","F","G","H","I","J","K","L","M",
    "N","O","P","Q","R","S","T","U","V","W","X","Y","Z">>
LowerSeq ==
  <<"a","b","c","d","e","f","g","h","i","j","k","l","m",
    "n","o","p","q","r","s","t","u","v","w","x","y","z">>

\* str.lower() on one character and on a text
LowerChar(c) ==
  IF c \in UpperCase THEN LowerSeq[CHOOSE i \in 1..26 : UpperSeq[i] = c] ELSE c
lower(s) == [i \in 1..Len(s) |-> LowerChar(s[i])]

\* the largest index at which c occurs in s, 0 if it does not
RFind(s, c) ==
  LET I == {i \in 1..Len(s) : s[i] = c}
  IN  IF I = {} THEN 0 ELSE CHOOSE i \in I : \A j \in I : j <= i

\* Path(p).name: what follows the last separator
PathName(p) == SubSeq(p, RFind(p, "/") + 1, Len(p))

\* Path(p).suffix: the name from its last dot on, unless that dot is the first or
\* the last character of the name
suffix(p) ==
  LET name == PathName(p)
      j == RFind(name, ".")
  IN  IF 1 < j /\ j < Len(name) THEN SubSeq(name, j, Len(name)) ELSE <<>>

None == "None"

\* the dictionary of apply_syntax_highlighting, in source order
mapping ==
  << <<<<".","p","y">>, "python">>,
     <<<<".","p","y","w">>, "python">>,
     <<<<".","c">>, "c">>,
     <<<<".","h">>, "c">>,
     <<<<".","c","p","p">>, "cpp">>,
     <<<<".","c","c">>, "cpp">>,
     <<<<".","c","x","x">>, "cpp">>,
     <<<<".","h","p","p">>, "cpp">>,
     <<<<".","j","a","v","a">>, "java">>,
     <<<<".","j","s">>, "javascript">>,
     <<<<".","j","s","x">>, "javascript">>,
     <<<<".","t","s">>, "typescript">>,
     <<<<".","t","s","x">>, "typescript">>,
     <<<<".","c","s">>, "csharp">>,
     <<<<".","p","h","p">>, "php">>,
     <<<<".","h","t","m","l">>, "html">>,
     <<<<".","h","t","m">>, "html">>,
     <<<<".","c","s","s">>, "css">>,
     <<<<".","j","s","o","n">>, "json">>,
     <<<<".","x","m","l">>, "xml">>,
     <<<<".","s","h">>, "generic">>,
     <<<<".","b","a","s","h">>, "generic">>,
     <<<<".","p","s","1">>, "generic">>,
     <<<<".","r","s">>, "cpp">>,
     <<<<".","g","o">>, "cpp">>,
     <<<<".","s","w","i","f","t">>, "cpp">>,
     <<<<".","k","t">>, "java">>,
     <<<<".","k","t","s">>, "java">>
  >>

\* mapping.get(ext, None)
\* (mapping_get_or_generic: the lookup with "generic" as its default instead)
mapping_get_or_generic(ext) ==
  IF \E i \in 1..Len(mapping) : mapping[i][1] = ext
  THEN mapping[CHOOSE i \in 1..Len(mapping) : mapping[i][1] = ext][2]
  ELSE "generic"
mapping_get(ext) ==
  IF \E i \in 1..Len(mapping) : mapping[i][1] = ext
  THEN mapping[CHOOSE i \in 1..Len(mapping) : mapping[i][1] = ext][2]
  ELSE None

\* the language apply_syntax_highlighting selects for a path, None if it selects none
\* (LanguageForExact: the suffix looked up as it is written)
LanguageForExact(path) == mapping_get(suffix(path))
LanguageFor(path) == mapping_get(lower(suffix(path)))

\* s without its k-th element
RemoveAt(s, k) == [i \in 1..(Len(s) - 1) |-> IF i < k THEN s[i] ELSE s[i + 1]]

\* the highlighters left connected when the editor's attribute stops referring to
\* its highlighter: the object is deleted (gone) or lives on as a child of the document
Release(hs, a, gone) == IF a # 0 /\ gone THEN RemoveAt(hs, a) ELSE hs

\* ~QSyntaxHighlighter: the formats of every block are cleared, the block states stay
ClearedFormats(ls) == [i \in 1..Len(ls) |-> Unpainted(ls[i])]

\* the most highlighters the model lets stay connected to one document
MaxAttached == 2

\* the document takes over what re-highlighting left: d holds userState, formats, runs
Rehighlighted(d) ==
  /\ userState' = d.userState
  /\ formats' = d.formats
  /\ runs' = d.runs

\* editor.highlighter = CodeHighlighter(editor.document(), lang), hs being the
\* highlighters connected before and fm the formats the document shows
Attach(new, hs, fm) ==
  /\ Len(hs) < MaxAttached
  /\ attached' = Append(hs, new)
  /\ attr' = Len(hs) + 1
  /\ Rehighlighted(Rehighlight(new, lines, userState, fm))

\* del editor.highlighter, and what the document shows afterwards
Detached(gone) == Release(attached, attr, gone)
FormatsDetached(gone) == IF attr # 0 /\ gone THEN ClearedFormats(lines) ELSE formats

\* apply_syntax_highlighting(editor, filepath) with lang the entry of the table
apply_language(lang, gone) ==
  IF lang = None
  THEN \* no recognised suffix: the attribute, if any, is deleted
       /\ attr' = 0
       /\ attached' = Detached(gone)
       /\ formats' = FormatsDetached(gone)
       /\ runs' = <<>>
       /\ UNCHANGED userState
  ELSE \* a new highlighter is constructed on the document and re-highlights all of it
       Attach(CodeHighlighter(lang, <<>>), Detached(gone), FormatsDetached(gone))

\* apply_syntax_highlighting(editor, filepath)
apply_syntax_highlighting(path, gone) ==
  IF path = <<>>
  THEN /\ runs' = <<>>
       /\ UNCHANGED <<userState, formats, attached, attr>>
  ELSE apply_language(LanguageFor(path), gone)

------------------------------------------------------------------------------
(* Operations.                                                              *)

NoPath == <<>>

\* NotepadApp.save_file_as on the editor: the dialog returns path (empty when it is
\* cancelled), the write succeeds or fails
save_file_as(path, written, gone) ==
  /\ UNCHANGED lines
  /\ IF path = <<>> \/ ~written
     THEN /\ runs' = <<>>
          /\ UNCHANGED <<userState, formats, attached, attr, filepath>>
     ELSE /\ filepath' = path
          /\ apply_syntax_highlighting(path, gone)

\* the user replaces the text of block i by t; every connected highlighter re-highlights
\* block i, the next block too when the change reaches the end of block i (through),
\* and the blocks after that while stored states change
EditLine(i, t, through) ==
  /\ t # lines[i]
  /\ lines' = [lines EXCEPT ![i] = t]
  /\ Rehighlighted(ReformatAll(attached, 1, lines',
                               [userState |-> userState,
                                formats |-> [formats EXCEPT ![i] = Unpainted(t)],
                                runs |-> <<>>],
                               i, IF through THEN i + 1 ELSE i))
  /\ UNCHANGED <<attached, attr, filepath>>

------------------------------------------------------------------------------
(* The tab widget: ModernTabWidget, ModernTabBar and the file operations of *)
(* the application that work on a tab.  A tab index is 0-based as in the    *)
(* source: the tab at index i is tabs[i + 1].  An operation works on a      *)
(* record w of the tabs, the current index, the files on disk and whether   *)
(* the operation has written a file, and the zoom label.                    *)

\* the most editor tabs the model opens
MaxTabs == 2

\* the point size of the font insert_new_tab gives an editor, the least size the zoom
\* functions set, and the largest size the model zooms to
DefaultPointSize == 11
MinPointSize == 6
MaxPointSize == 12

Untitled == <<"U","n","t","i","t","l","e","d">>

\* the tab add_plus_tab appends: no editor (so no font: size 0), tab data "plus"
PlusTab ==
  [data |-> "plus", title |-> <<>>, filepath |-> NoPath, text |-> <<>>,
   modified |-> FALSE, language |-> None, size |-> 0]

\* the tab insert_new_tab makes: an editor holding text (setPlainText leaves the
\* document unmodified), no file path, no highlighter, the font Consolas 11
EditorTab(text, title) ==
  [data |-> None, title |-> title, filepath |-> NoPath, text |-> text,
   modified |-> FALSE, language |-> None, size |-> DefaultPointSize]

\* the texts the user types, the paths the file dialogs return
TabTexts == {<<>>, <<"a">>}
TabPaths == {<<"a",".","c">>}

\* the answers of the "Save changes before closing?" box
Choices == {"Yes", "No", "Cancel"}

\* the mouse buttons
Buttons == {"Left", "Middle"}

count(w) == Len(w.tabs)

\* s with x put at position k
InsertAt(s, k, x) ==
  [i \in 1..(Len(s) + 1) |-> IF i < k THEN s[i] ELSE IF i = k THEN x ELSE s[i - 1]]

\* QTabWidget.addTab: the tab goes last; the first tab of a widget becomes current
addTab(w, tab) ==
  [w EXCEPT !.tabs = Append(w.tabs, tab),
            !.current = IF w.tabs = <<>> THEN 0 ELSE w.current]

\* QTabWidget.insertTab: the tabs from idx on move right, the current tab stays current
insertTab(w, idx, tab) ==
  [w EXCEPT !.tabs = InsertAt(w.tabs, idx + 1, tab),
            !.current = IF w.tabs = <<>> THEN 0
                        ELSE IF idx <= w.current THEN w.current + 1 ELSE w.current]

\* QTabWidget.setCurrentIndex: nothing for an index that is no tab
setCurrentIndex(w, idx) ==
  IF idx >= 0 /\ idx < count(w) THEN [w EXCEPT !.current = idx] ELSE w

\* QTabWidget.removeTab: nothing for an index that is no tab; when the current tab
\* goes, the tab to its right becomes current, the one to its left if there is none
removeTab(w, index) ==
  IF index < 0 \/ index >= count(w) THEN w
  ELSE [w EXCEPT !.tabs = RemoveAt(w.tabs, index + 1),
                 !.current = IF index < w.current THEN w.current - 1
                             ELSE IF index = w.current /\ index = count(w) - 1
                                  THEN index - 1
                                  ELSE w.current]

\* ModernTabWidget.add_plus_tab
add_plus_tab(w) == addTab(w, PlusTab)

\* ModernTabWidget.insert_new_tab: the new tab goes before the last one and is current
\* (insert_new_tab_last: the new tab added after the last one)
insert_new_tab_last(w, text, title) ==
  setCurrentIndex(addTab(w, EditorTab(text, title)), count(w))
insert_new_tab(w, text, title) ==
  setCurrentIndex(insertTab(w, count(w) - 1, EditorTab(text, title)), count(w) - 1)

\* the tab at index, after its text was written to path: open(path, "w") and write
Written(w, index, path) ==
  [w EXCEPT !.files[path] = w.tabs[index + 1].text,
            !.written = TRUE,
            !.tabs[index + 1].modified = FALSE]

\* open(path, "w") for a tab without an editor: the file is made empty, then
\* ed.toPlainText() raises on ed = None and the except clause shows a warning
Truncated(w, path) == [w EXCEPT !.files[path] = <<>>]

\* NotepadApp.save_file_as for the tab at index: path is what the dialog returns
\* (NoPath when cancelled), ok whether opening and writing the file succeed; the
\* highlighter is chosen by apply_syntax_highlighting
save_file_as_tab(w, index, path, ok) ==
  IF index < 0 \/ index >= count(w) \/ path = NoPath \/ ~ok THEN w
  ELSE IF w.tabs[index + 1].data = "plus" THEN Truncated(w, path)
  ELSE [Written(w, index, path) EXCEPT
          !.tabs[index + 1].filepath = path,
          !.tabs[index + 1].title = PathName(path),
          !.tabs[index + 1].language = LanguageFor(path)]

\* NotepadApp.save_file for the tab at index
save_file(w, index, path, ok) ==
  IF index < 0 \/ index >= count(w) THEN w
  ELSE IF w.tabs[index + 1].filepath = NoPath THEN save_file_as_tab(w, index, path, ok)
  ELSE IF ok THEN Written(w, index, w.tabs[index + 1].filepath)
  ELSE w

\* get_editor(index) finds an editor whose document isModified()
ModifiedEditor(w, index) ==
  /\ index >= 0 /\ index < count(w)
  /\ w.tabs[index + 1].data # "plus"
  /\ w.tabs[index + 1].modified

\* ModernTabWidget.close_tab: choice is the answer to the question box; path and ok
\* are the outcomes of the save the answer Yes starts
close_tab(w, index, choice, path, ok) ==
  IF index = count(w) - 1 THEN w
  ELSE IF ModifiedEditor(w, index) /\ choice = "Cancel" THEN w
  ELSE IF ModifiedEditor(w, index) /\ choice = "Yes"
       THEN removeTab(save_file(w, index, path, ok), index)
  ELSE removeTab(w, index)

\* QTabBar.mousePressEvent: the left button makes the tab under the pointer current
mousePressEvent(w, idx, button) ==
  IF button = "Left" THEN setCurrentIndex(w, idx) ELSE w

\* ModernTabBar.mouseReleaseEvent: idx is tabAt(position), -1 off the tabs
mouseReleaseEvent(w, idx, button, choice, path, ok) ==
  IF idx = count(w) - 1 THEN insert_new_tab(w, <<>>, Untitled)
  ELSE IF button = "Middle" THEN close_tab(w, idx, choice, path, ok)
  ELSE w

\* the first tab before the last that is titled Untitled and has an empty editor,
\* -1 if there is none
\* (LastEmptyUntitled: the last such tab)
LastEmptyUntitled(w) ==
  LET I == {i \in 0..(count(w) - 2) :
              w.tabs[i + 1].title = Untitled /\ w.tabs[i + 1].text = <<>>}
  IN  IF I = {} THEN -1 ELSE CHOOSE i \in I : \A j \in I : i >= j
FirstEmptyUntitled(w) ==
  LET I == {i \in 0..(count(w) - 2) :
              w.tabs[i + 1].title = Untitled /\ w.tabs[i + 1].text = <<>>}
  IN  IF I = {} THEN -1 ELSE CHOOSE i \in I : \A j \in I : i <= j

\* the tab at index given the content of the file at path
Loaded(w, index, path) ==
  [w EXCEPT !.tabs[index + 1].filepath = path,
            !.tabs[index + 1].language = LanguageFor(path)]

\* the empty Untitled tab at index i takes the file
Replaced(w, i, path) ==
  setCurrentIndex(
    Loaded([w EXCEPT !.tabs[i + 1].text = w.files[path],
                     !.tabs[i + 1].modified = FALSE,
                     !.tabs[i + 1].title = PathName(path)], i, path), i)

\* the file goes to a new tab, which insert_new_tab has made current
InNewTab(w, path) == Loaded(w, w.current, path)

\* NotepadApp._load_file_into_tab: readable is whether the file can be read
load_file_into_tab(w, path, readable) ==
  IF ~readable THEN w
  ELSE IF FirstEmptyUntitled(w) # -1 THEN Replaced(w, FirstEmptyUntitled(w), path)
  ELSE InNewTab(insert_new_tab(w, w.files[path], PathName(path)), path)

\* NotepadApp.open_file: path is what the dialog returns, NoPath when cancelled
open_file(w, path, readable) ==
  IF path = NoPath THEN w ELSE load_file_into_tab(w, path, readable)

\* the user types in the editor of the tab at index
Typed(w, index, text) ==
  [w EXCEPT !.tabs[index + 1].text = text, !.tabs[index + 1].modified = TRUE]

\* ModernTabWidget.get_editor() finds the editor at index: the tab at index is the
\* current one and has an editor
IsCurrentEditor(w, index) ==
  /\ index = w.current
  /\ index >= 0 /\ index < count(w)
  /\ w.tabs[index + 1].data # "plus"

\* round(size / 11 * 100): no size is half way between two integers, as 200 * size is
\* even and 11 * (2 * k + 1) is odd
Percent(size) == (200 * size + 11) \div 22

Max(a, b) == IF a >= b THEN a ELSE b

\* the font of the editor at index set to size, the label set if that editor is the
\* current one
Zoomed(w, index, size) ==
  [w EXCEPT !.tabs[index + 1].size = size,
            !.zoom = IF IsCurrentEditor(w, index) THEN Percent(size) ELSE w.zoom]

\* NotepadApp.zoom_in_editor and zoom_out_editor for the editor of the tab at index
\* (no editor: index is no tab or the plus tab); zoom_out_editor(editor, step) is
\* zoom_editor with -step
zoom_editor(w, index, step) ==
  IF index < 0 \/ index >= count(w) \/ w.tabs[index + 1].data = "plus" THEN w
  ELSE Zoomed(w, index, Max(MinPointSize, w.tabs[index + 1].size + step))

zoom_in_editor(w, index, step) == zoom_editor(w, index, step)
zoom_out_editor(w, index, step) == zoom_editor(w, index, 0 - step)

\* NotepadApp.zoom_in_current and zoom_out_current
zoom_in_current(w, step) == zoom_in_editor(w, w.current, step)
zoom_out_current(w, step) == zoom_out_editor(w, w.current, step)

\* NotepadApp.reset_zoom
reset_zoom(w) ==
  IF ~IsCurrentEditor(w, w.current) THEN w
  ELSE [w EXCEPT !.tabs[w.current + 1].size = DefaultPointSize, !.zoom = 100]

\* the angleDelta().y() of a wheel event with Ctrl held: a notch up, a notch down, a
\* horizontal wheel
WheelDeltas == {120, -120, 0}

\* ZoomablePlainTextEdit.wheelEvent with Ctrl held, for the editor of the tab at index
wheelEvent(w, index, delta) ==
  IF delta > 0 THEN zoom_in_editor(w, index, 1) ELSE zoom_out_editor(w, index, 1)

\* the tab widget when the application has started: ModernTabWidget.__init__ adds
\* the plus tab, NotepadApp.__init__ inserts one Untitled tab
NoTabs == [tabs |-> <<>>, current |-> -1,
           files |-> [p \in TabPaths |-> <<"a">>],
           written |-> FALSE, zoom |-> 100]
Started == insert_new_tab(add_plus_tab(NoTabs), <<>>, Untitled)

\* the answers the question box of close_tab can get for the tab at index: "none"
\* when close_tab does not ask
Answers(w, index) ==
  IF index # count(w) - 1 /\ ModifiedEditor(w, index) THEN Choices ELSE {"none"}

\* the outcomes of the save an answer starts: the path the Save As dialog returns and
\* whether the write succeeds
SaveOutcomes(choice) ==
  IF choice = "Yes" THEN (TabPaths \cup {NoPath}) \X BOOLEAN ELSE {<<NoPath, FALSE>>}

\* what is recorded of the last operation: its name, the tab index it was given, the
\* answer to the question box, what open_file was given (the path and whether the
\* file could be read), whether a file was written, and the text and the modified flag
\* of the tab it removed
Record(op, index, choice, input, res) ==
  [op |-> op, index |-> index, choice |-> choice, input |-> input,
   written |-> res.written,
   closed |-> IF count(res) < Len(tabs)
              THEN <<[text |-> tabs[index + 1].text, modified |-> tabs[index + 1].modified]>>
              ELSE <<>>]

\* no find or replace operation yet: the editor is empty, the cursor at the start
FindIdle ==
  /\ edText = <<>>
  /\ edAnchor = 0
  /\ edPosition = 0
  /\ lastFind = [op |-> "none", find |-> <<>>, rep |-> <<>>, finished |-> TRUE]

WidgetStarted ==
  /\ tabs = Started.tabs
  /\ current = Started.current
  /\ files = Started.files
  /\ lbl_zoom = Started.zoom
  /\ lastOp = [op |-> "start", index |-> -1, choice |-> "none", input |-> <<>>,
               written |-> FALSE,
               closed |-> <<>>]

TabsStarted ==
  /\ WidgetStarted
  /\ FindIdle

\* the tab widget before an operation
Widget ==
  [tabs |-> tabs, current |-> current, files |-> files, written |-> FALSE,
   zoom |-> lbl_zoom]

\* the tab widget takes over the result of an operation
Applied(res, op, index, choice, input) ==
  /\ count(res) <= MaxTabs + 1
  /\ tabs' = res.tabs
  /\ current' = res.current
  /\ files' = res.files
  /\ lbl_zoom' = res.zoom
  /\ lastOp' = Record(op, index, choice, input, res)
  /\ UNCHANGED findVars

------------------------------------------------------------------------------
(* The editing specification: one editor tab, its document and its file.    *)

DocPaths == {<<"a",".","c">>, <<"a",".","x","y","z">>, <<>>}

Init ==
  /\ TabsStarted
  /\ lines = [i \in 1..MaxLines |-> <<>>]
  /\ userState = [i \in 1..MaxLines |-> -1]
  /\ formats = [i \in 1..MaxLines |-> <<>>]
  /\ attached = <<>>
  /\ attr = 0
  /\ filepath = NoPath
  /\ runs = <<>>
  /\ saves = 0

Edit ==
  /\ \E i \in 1..MaxLines, t \in DocTexts, through \in BOOLEAN : EditLine(i, t, through)
  /\ UNCHANGED saves
  /\ UNCHANGED tabVars

SaveAs ==
  /\ \E path \in DocPaths, written \in BOOLEAN, gone \in BOOLEAN :
       save_file_as(path, written, gone)
  /\ UNCHANGED saves
  /\ UNCHANGED tabVars

Next == Edit \/ SaveAs

Spec == Init /\ [][Next]_vars

------------------------------------------------------------------------------
(* highlightBlock on its own: a highlighter has just been constructed on a  *)
(* document of two blocks, whose stored states are left from earlier        *)
(* highlighting, and re-highlights it.                                      *)

\* the file names the suffix table is tried on: a name for every suffix of the table,
\* and names with a suffix it does not hold or with none
Named(ext) == <<"a">> \o ext
MappedPaths == {Named(mapping[i][1]) : i \in 1..Len(mapping)}
UnmappedPaths ==
  {<<"a",".","x","y","z">>, <<"a",".","t","x","t">>, <<"M","a","k","e","f","i","l","e">>}
\* names whose suffix is written in capitals or in mixed case
UpperChar(c) ==
  IF c \in LowerCase THEN UpperSeq[CHOOSE i \in 1..26 : LowerSeq[i] = c] ELSE c
upper(s) == [i \in 1..Len(s) |-> UpperChar(s[i])]
MixedCasePaths ==
  {upper(Named(mapping[i][1])) : i \in 1..Len(mapping)}
    \cup {<<"a",".","P","y">>, <<"a",".","X","y","z">>}
AllPaths == MappedPaths \cup UnmappedPaths \cup MixedCasePaths

PathOf(language) == CHOOSE p \in MappedPaths : LanguageFor(p) = language

InitLine ==
  /\ TabsStarted
  /\ \E h \in KnownHighlighters :
       /\ attached = <<h>>
       /\ attr = 1
       /\ filepath = PathOf(h.language)
       /\ runs = <<>>
       /\ saves = 0
       /\ \E t \in LineTexts :
            IF BlockCommentOf(h).present
            THEN \E ctx \in ContextTexts, s1 \in BlockStates, s2 \in BlockStates :
                   /\ lines = <<ctx, t>>
                   /\ userState = <<s1, s2>>
                   /\ formats = ClearedFormats(<<ctx, t>>)
            ELSE /\ lines = <<<<>>, t>>
                 /\ userState = <<-1, -1>>
                 /\ formats = ClearedFormats(<<<<>>, t>>)

RehighlightAll ==
  /\ runs = <<>>
  /\ Rehighlighted(Rehighlight(attached[attr], lines, userState, formats))
  /\ UNCHANGED <<lines, attached, attr, filepath, saves>>
  /\ UNCHANGED tabVars

NextLine == RehighlightAll

SpecLine == InitLine /\ [][NextLine]_vars

------------------------------------------------------------------------------
(* The suffix table on its own: Save As under any of the file names.        *)

MaxSaves == 1

\* a document as re-highlighting left it when its file was opened
Opened(d) ==
  /\ userState = d.userState
  /\ formats = d.formats

SaveAsAny ==
  /\ saves < MaxSaves
  /\ \E path \in AllPaths, gone \in BOOLEAN :
       /\ save_file_as(path, TRUE, gone)
       /\ saves' = saves + 1
  /\ UNCHANGED tabVars

InitMap ==
  /\ TabsStarted
  /\ lines = <<<<"/","*">>, <<"a">>>>
  /\ saves = 0
  /\ runs = <<>>
  /\ \/ /\ attached = <<>>
        /\ attr = 0
        /\ filepath = NoPath
        /\ userState = <<-1, -1>>
        /\ formats = ClearedFormats(lines)
     \/ \E l \in Languages :
          /\ attached = <<CodeHighlighter(l, <<>>)>>
          /\ attr = 1
          /\ filepath = PathOf(l)
          /\ Opened(Rehighlight(CodeHighlighter(l, <<>>), lines, <<-1, -1>>,
                                ClearedFormats(lines)))

NextMap == SaveAsAny

SpecMap == InitMap /\ [][NextMap]_vars


------------------------------------------------------------------------------
(* The tab specification: the tab widget of the window and the files.       *)

\* the document of the one-editor specifications is left as it is at start
DocumentIdle ==
  /\ lines = [i \in 1..MaxLines |-> <<>>]
  /\ userState = [i \in 1..MaxLines |-> -1]
  /\ formats = [i \in 1..MaxLines |-> <<>>]
  /\ attached = <<>>
  /\ attr = 0
  /\ filepath = NoPath
  /\ runs = <<>>
  /\ saves = 0

InitTabs ==
  /\ DocumentIdle
  /\ TabsStarted

\* File > New
NewTab ==
  /\ Applied(insert_new_tab(Widget, <<>>, Untitled), "insert_new_tab", count(Widget) - 1, "none", <<>>)
  /\ UNCHANGED docVars

\* a press and release of a mouse button on the tab bar, on a tab or off the tabs
Click ==
  /\ \E idx \in -1..(Len(tabs) - 1), button \in Buttons :
       \E choice \in (IF button = "Middle" THEN Answers(Widget, idx) ELSE {"none"}) :
         \E out \in SaveOutcomes(choice) :
           Applied(mouseReleaseEvent(mousePressEvent(Widget, idx, button),
                                     idx, button, choice, out[1], out[2]),
                   "mouseReleaseEvent", idx, choice, <<>>)
  /\ UNCHANGED docVars

\* File > Open
OpenFile ==
  /\ \E path \in TabPaths \cup {NoPath}, readable \in BOOLEAN :
       Applied(open_file(Widget, path, readable), "open_file", -1, "none",
               <<path, readable>>)
  /\ UNCHANGED docVars

\* close_tab called with a tab index: the close button of a tab, or a call with the
\* index of the plus tab
CloseTab ==
  /\ \E index \in 0..(Len(tabs) - 1) :
       \E choice \in Answers(Widget, index) :
         \E out \in SaveOutcomes(choice) :
           Applied(close_tab(Widget, index, choice, out[1], out[2]),
                   "close_tab", index, choice, <<>>)
  /\ UNCHANGED docVars

\* the user types in the editor of the current tab
Type ==
  /\ current >= 0 /\ current < Len(tabs)
  /\ tabs[current + 1].data # "plus"
  /\ \E text \in TabTexts :
       /\ text # tabs[current + 1].text
       /\ Applied(Typed(Widget, current, text), "type", current, "none", <<>>)
  /\ UNCHANGED docVars

\* File > Save and File > Save As, on the current tab
SaveFile ==
  /\ \E path \in TabPaths \cup {NoPath}, ok \in BOOLEAN :
       Applied(save_file(Widget, current, path, ok), "save_file", current, "none", <<>>)
  /\ UNCHANGED docVars

SaveFileAs ==
  /\ \E path \in TabPaths \cup {NoPath}, ok \in BOOLEAN :
       Applied(save_file_as_tab(Widget, current, path, ok), "save_file_as", current, "none",
               <<>>)
  /\ UNCHANGED docVars

NextTabs == NewTab \/ Click \/ OpenFile \/ CloseTab \/ Type \/ SaveFile \/ SaveFileAs

SpecTabs == InitTabs /\ [][NextTabs]_vars

------------------------------------------------------------------------------
(* Zooming: View > Zoom In, Zoom Out and Reset Zoom, Ctrl+wheel over the      *)
(* editor, new tabs and switching between tabs.                              *)

\* the current tab has an editor whose font the model may still enlarge
MayZoomIn ==
  /\ IsCurrentEditor(Widget, current)
  /\ tabs[current + 1].size < MaxPointSize

\* View > Zoom In
ZoomIn ==
  /\ MayZoomIn
  /\ Applied(zoom_in_current(Widget, 1), "zoom_in_current", current, "none", <<>>)
  /\ UNCHANGED docVars

\* View > Zoom Out
ZoomOut ==
  /\ Applied(zoom_out_current(Widget, 1), "zoom_out_current", current, "none", <<>>)
  /\ UNCHANGED docVars

\* View > Reset Zoom
ResetZoom ==
  /\ Applied(reset_zoom(Widget), "reset_zoom", current, "none", <<>>)
  /\ UNCHANGED docVars

\* Ctrl+wheel over the editor: the editor on screen is the one of the current tab
Wheel ==
  /\ IsCurrentEditor(Widget, current)
  /\ \E delta \in WheelDeltas :
       /\ delta > 0 => MayZoomIn
       /\ Applied(wheelEvent(Widget, current, delta), "wheelEvent", current, "none",
                  <<delta>>)
  /\ UNCHANGED docVars

\* a click with the left button on a tab: on an editor tab it switches to the tab, on
\* the plus tab it adds a tab
LeftClick ==
  /\ \E idx \in 0..(Len(tabs) - 1) :
       Applied(mouseReleaseEvent(mousePressEvent(Widget, idx, "Left"),
                                 idx, "Left", "none", NoPath, FALSE),
               "mouseReleaseEvent", idx, "none", <<>>)
  /\ UNCHANGED docVars

NextZoom == ZoomIn \/ ZoomOut \/ ResetZoom \/ Wheel \/ NewTab \/ LeftClick

SpecZoom == InitTabs /\ [][NextZoom]_vars
------------------------------------------------------------------------------
(* Find and replace: the editor of the current tab with its text cursor.     *)
(* An editor is a record of the text, the anchor and the position of the     *)
(* cursor; positions count characters from 0 as in QTextCursor and in the    *)
(* indexes of toPlainText().                                                 *)

\* the longest document text, the longest text of a line edit of the dialogs
MaxDocLen == 4
MaxFindLen == 2

\* the document texts and the texts typed in the Find and Replace line edits
Documents == TextsUpTo({"a", "A", "b"}, MaxDocLen)
FindTexts == TextsUpTo({"a"}, MaxFindLen) \cup {<<"a", "b">>}

\* the most rounds of the loop of _do_replace_all the model follows: every round
\* that finishes moves the cursor past one more character of the original text
MaxRounds == MaxDocLen + 1

Min(a, b) == IF a <= b THEN a ELSE b

hasSelection(ed) == ed.anchor # ed.position
selectionStart(ed) == Min(ed.anchor, ed.position)
selectionEnd(ed) == Max(ed.anchor, ed.position)

\* the cursor with anchor and position at pos
setPosition(ed, pos) == [ed EXCEPT !.anchor = pos, !.position = pos]

\* the cursor selecting len characters from idx: setPosition(idx), then
\* setPosition(idx + len, KeepAnchor)
Selected(ed, idx, len) == [ed EXCEPT !.anchor = idx, !.position = idx + len]

\* text is found at position i of full, letters compared without regard to case as
\* QPlainTextEdit.find does when no flag is given
FoundAt(full, text, i) ==
  /\ i >= 0 /\ i + Len(text) <= Len(full)
  /\ \A k \in 1..Len(text) : LowerChar(full[i + k]) = LowerChar(text[k])

\* the first position from start on where text is found, -1 if there is none
FirstFrom(full, text, start) ==
  LET I == {i \in start..Len(full) : FoundAt(full, text, i)}
  IN  IF I = {} THEN -1 ELSE CHOOSE i \in I : \A j \in I : i <= j

\* QPlainTextEdit.find(text): forward from the end of the selection; the match becomes
\* the selection; find returns False and leaves the cursor when there is none
found(ed, text) == text # <<>> /\ FirstFrom(ed.text, text, selectionEnd(ed)) # -1
find(ed, text) ==
  IF found(ed, text)
  THEN Selected(ed, FirstFrom(ed.text, text, selectionEnd(ed)), Len(text))
  ELSE ed

\* the text with the selection replaced by rep
WithInserted(ed, rep) ==
  SubSeq(ed.text, 1, selectionStart(ed)) \o rep
    \o SubSeq(ed.text, selectionEnd(ed) + 1, Len(ed.text))

\* c = ed.textCursor(); c.insertText(rep): the selection is replaced by rep; the
\* cursor of the editor, which is at the place of the change, moves behind rep
\* (insertTextKeepingCursor: the cursor of the editor stays before rep)
insertTextKeepingCursor(ed, rep) ==
  [text |-> WithInserted(ed, rep),
   anchor |-> selectionStart(ed), position |-> selectionStart(ed)]
insertText(ed, rep) ==
  [text |-> WithInserted(ed, rep),
   anchor |-> selectionStart(ed) + Len(rep),
   position |-> selectionStart(ed) + Len(rep)]

\* while ed.find(find_text): c.insertText(rep_text), followed for at most n rounds;
\* finished tells whether find returned False within them
RECURSIVE ReplaceLoop(_, _, _, _)
ReplaceLoop(ed, find_text, rep_text, n) ==
  IF ~found(ed, find_text) THEN [ed |-> ed, finished |-> TRUE]
  ELSE IF n = 0 THEN [ed |-> ed, finished |-> FALSE]
  ELSE ReplaceLoop(insertText(find(ed, find_text), rep_text), find_text, rep_text, n - 1)

\* NotepadApp._do_replace_all
do_replace_all(ed, find_text, rep_text) ==
  IF find_text = <<>> THEN [ed |-> ed, finished |-> TRUE]
  ELSE ReplaceLoop(setPosition(ed, 0), find_text, rep_text, MaxRounds)

\* str.rfind(text, start, end): the highest index in start..(end - Len(text)) at which
\* text occurs, -1 if there is none; end is cut to the length of the string
rfind(full, text, start, end) ==
  LET I == {i \in start..(Min(end, Len(full)) - Len(text)) :
              SubSeq(full, i + 1, i + Len(text)) = text}
  IN  IF I = {} THEN -1 ELSE CHOOSE i \in I : \A j \in I : i >= j

\* pos of find_previous and _do_find: the selection start, or the cursor position
SearchPos(ed) == IF hasSelection(ed) THEN selectionStart(ed) ELSE ed.position

\* the index find_previous and _do_find look up first
IndexBefore(ed, text) == rfind(ed.text, text, 0, Max(0, SearchPos(ed) - 1))

\* NotepadApp.find_previous without a dialog: ok and text are what QInputDialog.getText
\* returns
find_previous(ed, text, ok) ==
  IF ~ok \/ text = <<>> THEN ed
  ELSE IF IndexBefore(ed, text) = -1 THEN ed
  ELSE Selected(ed, IndexBefore(ed, text), Len(text))

\* NotepadApp._do_find with forward=False: when nothing is found before pos the whole
\* text is searched from its end
do_find_backward(ed, text) ==
  IF text = <<>> THEN ed
  ELSE IF IndexBefore(ed, text) # -1 THEN Selected(ed, IndexBefore(ed, text), Len(text))
  ELSE IF rfind(ed.text, text, 0, Len(ed.text)) = -1 THEN ed
  ELSE Selected(ed, rfind(ed.text, text, 0, Len(ed.text)), Len(text))

\* the editor before an operation
Editor == [text |-> edText, anchor |-> edAnchor, position |-> edPosition]

\* the editor takes over the result of an operation
Found(ed, op, find_text, rep_text, finished) ==
  /\ edText' = ed.text
  /\ edAnchor' = ed.anchor
  /\ edPosition' = ed.position
  /\ lastFind' = [op |-> op, find |-> find_text, rep |-> rep_text, finished |-> finished]
  /\ UNCHANGED docVars
  /\ UNCHANGED widgetVars

\* an editor with any document, the cursor anywhere in it
InitFind ==
  /\ DocumentIdle
  /\ WidgetStarted
  /\ edText \in Documents
  /\ edPosition \in 0..Len(edText)
  /\ edAnchor = edPosition
  /\ lastFind = [op |-> "none", find |-> <<>>, rep |-> <<>>, finished |-> TRUE]

Replaced_all(res, find_text, rep_text) ==
  Found(res.ed, "do_replace_all", find_text, rep_text, res.finished)

\* the Replace All button of the Replace dialog
ReplaceAll ==
  /\ Len(edText) <= MaxDocLen
  /\ \E find_text \in FindTexts, rep_text \in FindTexts :
       Replaced_all(do_replace_all(Editor, find_text, rep_text), find_text, rep_text)

\* Edit > Find Previous when the window has no find dialog
FindPrevious ==
  /\ Len(edText) <= MaxDocLen
  /\ \E text \in FindTexts, ok \in BOOLEAN :
       Found(find_previous(Editor, text, ok),
             IF ok THEN "find_previous" ELSE "find_previous (cancelled)", text, <<>>, TRUE)

\* the button of the Find Previous dialog
DoFindPrevious ==
  /\ Len(edText) <= MaxDocLen
  /\ \E text \in FindTexts :
       Found(do_find_backward(Editor, text), "do_find", text, <<>>, TRUE)

\* the user clicks in the text
SetCursor ==
  /\ Len(edText) <= MaxDocLen
  /\ \E pos \in 0..Len(edText) :
       Found(setPosition(Editor, pos), "click", <<>>, <<>>, TRUE)

NextFind == ReplaceAll \/ FindPrevious \/ DoFindPrevious \/ SetCursor

SpecFind == InitFind /\ [][NextFind]_vars
------------------------------------------------------------------------------
(* Properties.                                                              *)

\* the two highlighter states of the specification: a stored block state of 1 is
\* InBlockComment, any other (0, or -1 for none stored) is Clean
LineState(s) == IF s = 1 THEN "InBlockComment" ELSE "Clean"

\* the runs of a highlighter whose profile has a block-comment rule
BlockRuns == {k \in 1..Len(runs) : BlockCommentOf(runs[k].h).present}

\* the offsets at or after from where the two characters a b stand in text
Occurrences(text, a, b, from) ==
  {p \in from..(Len(text) - 2) : text[p + 1] = a /\ text[p + 2] = b}

\* the first of them, -1 if there is none
FirstOccurrence(text, a, b, from) ==
  IF Occurrences(text, a, b, from) = {} THEN -1
  ELSE CHOOSE p \in Occurrences(text, a, b, from) :
         \A q \in Occurrences(text, a, b, from) : p <= q

FirstStart(text, from) == FirstOccurrence(text, "/", "*", from)
FirstEnd(text, from) == FirstOccurrence(text, "*", "/", from)

\* the setFormat calls of the block-comment scan in a run, in order
BlockCalls(r) == SelectSeq(r.calls, LAMBDA c : c.by = "block")

\* what highlightBlock gives on the text, incoming state and profile of a run when
\* the line has never been highlighted before
Fresh(r) == highlightBlock(r.h, r.text, r.incoming, -1)

\* C1: the spans and the outgoing state of a highlightBlock run depend on the text,
\* the incoming state and the profile only: they are those of a run on a line that has
\* no state stored, whatever state the line itself had stored before the run
C1_ResultIndependentOfStoredState ==
  \A k \in BlockRuns :
    /\ runs[k].calls = Fresh(runs[k]).calls
    /\ LineState(runs[k].outgoing) = LineState(Fresh(runs[k]).state)

\* the scanner of the specification on one line: the outgoing state, searching from
\* offset from, inside a comment or not
RECURSIVE ScanState(_, _, _)
ScanState(text, from, inside) ==
  IF inside
  THEN IF FirstEnd(text, from) = -1 THEN "InBlockComment"
       ELSE ScanState(text, FirstEnd(text, from) + 2, FALSE)
  ELSE IF FirstStart(text, from) = -1 THEN "Clean"
       ELSE ScanState(text, FirstStart(text, from), TRUE)

\* the outgoing state of line i when the scanner is folded over the lines from Clean
RECURSIVE FoldState(_, _)
FoldState(ls, i) ==
  IF i = 0 THEN "Clean" ELSE ScanState(ls[i], 0, FoldState(ls, i - 1) = "InBlockComment")

\* C2: while a highlighter with a block-comment rule is attached, the stored state of
\* every line equals the outgoing state obtained by folding the scanner over the whole
\* document from the first line with incoming state Clean
C2_StoredStatesEqualFold ==
  (attr # 0 /\ BlockCommentOf(attached[attr]).present)
    => \A i \in 1..Len(lines) : LineState(userState[i]) = FoldState(lines, i)

\* C3: a run with incoming state Clean on a line without a start delimiter leaves the
\* outgoing state Clean, whatever the line had stored
C3_CleanLineStaysClean ==
  \A k \in BlockRuns :
    (runs[k].incoming # 1 /\ FirstStart(runs[k].text, 0) = -1)
      => LineState(runs[k].outgoing) = "Clean"

\* C8: once the file has a suffix the table does not hold, the editor has no
\* highlighter and no line keeps the stored state of an earlier highlighter
C8_UnknownSuffixClearsAll ==
  (filepath # NoPath /\ LanguageFor(filepath) = None)
    => /\ attr = 0
       /\ \A i \in 1..Len(lines) : LineState(userState[i]) = "Clean"

\* the call the block-comment scan makes for a comment from start over length characters
CommentCall(start, length) == Call(start, length, comment_fmt, "block", 0)

\* call k of the block-comment scan of run r began at a start delimiter the scan
\* found, not at offset 0 of a line that began inside a comment
AtFoundStart(r, k) == ~(k = 1 /\ r.incoming = 1)

\* where the search that led to call k of the scan began
SearchedFrom(bc, k) == IF k = 1 THEN 0 ELSE bc[k - 1].start + bc[k - 1].length

\* what call k of the scan of run r must be when it began at a found start delimiter
StartScanned(r, bc, k) ==
  LET s == bc[k].start
      e == FirstEnd(r.text, s)
  IN  /\ s >= 0
      /\ s = FirstStart(r.text, SearchedFrom(bc, k))
      /\ IF e # -1
         THEN /\ bc[k] = CommentCall(s, e + 2 - s)
              /\ IF FirstStart(r.text, e + 2) = -1
                 THEN k = Len(bc) /\ LineState(r.outgoing) = "Clean"
                 ELSE k < Len(bc)
         ELSE /\ bc[k] = CommentCall(s, Len(r.text) - s)
              /\ k = Len(bc)
              /\ LineState(r.outgoing) = "InBlockComment"

\* C4: a start delimiter found at s makes the scan search the end delimiter at or
\* after s; found at e, the comment span is [s, e+2) and the next start delimiter is
\* searched from e+2; not found, the span is [s, len) and the line ends InBlockComment
C4_StartDelimiterScan ==
  \A n \in BlockRuns :
    /\ (runs[n].incoming # 1 /\ FirstStart(runs[n].text, 0) # -1)
         => Len(BlockCalls(runs[n])) >= 1
    /\ \A k \in 1..Len(BlockCalls(runs[n])) :
         AtFoundStart(runs[n], k) => StartScanned(runs[n], BlockCalls(runs[n]), k)

\* a line that began Clean, held a complete comment and then an open one
C4_Witness ==
  \E n \in BlockRuns :
    /\ runs[n].incoming # 1
    /\ runs[n].text = RoundTripFirst
    /\ BlockCalls(runs[n]) = <<CommentCall(0, 7), CommentCall(13, 4)>>
    /\ runs[n].outgoing = 1

\* C5: on a line that begins InBlockComment and holds an end delimiter, first at e,
\* the comment span is [0, e+2), the scan goes on to the next start delimiter after
\* it, and the line ends Clean when there is none
C5_ResumeAfterEnd ==
  \A n \in BlockRuns :
    LET r == runs[n]
        bc == BlockCalls(runs[n])
        e == FirstEnd(runs[n].text, 0)
    IN  (r.incoming = 1 /\ e # -1)
          => /\ Len(bc) >= 1
             /\ bc[1] = CommentCall(0, e + 2)
             /\ IF FirstStart(r.text, e + 2) = -1
                THEN Len(bc) = 1 /\ LineState(r.outgoing) = "Clean"
                ELSE Len(bc) >= 2 /\ bc[2].start = FirstStart(r.text, e + 2)

\* a line that had InBlockComment stored, began inside a comment and closed it
C5_Witness ==
  \E n \in BlockRuns :
    /\ runs[n].incoming = 1
    /\ runs[n].before = 1
    /\ FirstEnd(runs[n].text, 0) > 0
    /\ FirstStart(runs[n].text, FirstEnd(runs[n].text, 0) + 2) = -1
    /\ runs[n].outgoing = 0

\* C6: on a line that begins InBlockComment and holds no end delimiter, the scan makes
\* exactly one call, for the span [0, len), and the line ends InBlockComment; so it is
\* on the empty line
C6_WholeLineComment ==
  \A n \in BlockRuns :
    (runs[n].incoming = 1 /\ FirstEnd(runs[n].text, 0) = -1)
      => /\ BlockCalls(runs[n]) = <<CommentCall(0, Len(runs[n].text))>>
         /\ LineState(runs[n].outgoing) = "InBlockComment"

\* an empty line inside a comment, which had no InBlockComment stored
C6_Witness ==
  \E n \in BlockRuns :
    /\ runs[n].incoming = 1
    /\ runs[n].text = <<>>
    /\ runs[n].before # 1
    /\ runs[n].outgoing = 1

\* the document "/* a */ code /* b", "more */ end" has been re-highlighted by a
\* highlighter with a block-comment rule
RoundTripDone ==
  /\ lines = <<RoundTripFirst, RoundTripSecond>>
  /\ BlockCommentOf(attached[attr]).present
  /\ Len(runs) = 2

\* the round trip with the second line's comment span being [0, length)
RoundTrip(length) ==
  RoundTripDone
    => /\ runs[1].incoming # 1
       /\ LineState(userState[1]) = "InBlockComment"
       /\ runs[2].incoming = userState[1]
       /\ BlockCalls(runs[2]) = <<CommentCall(0, length)>>
       /\ LineState(userState[2]) = "Clean"

\* C7: "/* a */ code /* b" with incoming Clean ends InBlockComment, and the next line
\* "more */ end" then gets the comment span [0,7), through its end delimiter, and
\* ends Clean
C7_RoundTrip == RoundTrip(7)

\* C7 as stated: the comment span of the second line is [0,5)
C7_RoundTripAsStated == RoundTrip(5)

C7_Witness == RoundTripDone /\ userState = <<1, 0>>

\* C10: the rule loop makes no setFormat call of length zero, no call of length zero
\* reaches the text at all, and the rule loop visits a bounded number of matches
C10_NoZeroLengthSpan ==
  \A n \in 1..Len(runs) :
    /\ \A k \in 1..Len(runs[n].calls) :
         /\ runs[n].calls[k].by = "rule" => runs[n].calls[k].length > 0
         /\ runs[n].calls[k].length = 0 => runs[n].calls[k].start >= Len(runs[n].text)
    /\ runs[n].visited <= Len(RulesOf(runs[n].h)) * (2 * Len(runs[n].text) + 1)

\* \b\d*\b on "abc": the rule matched the empty string and made no call
C10_Witness ==
  \E n \in 1..Len(runs) :
    /\ runs[n].h.extra = <<"probe">>
    /\ runs[n].text = PlainWord
    /\ \E m \in 1..Len(globalMatch(ProbePattern, PlainWord)) :
         globalMatch(ProbePattern, PlainWord)[m].length = 0
    /\ \A k \in 1..Len(runs[n].calls) :
         runs[n].calls[k].rule # Len(RulesOf(runs[n].h))

\* the language of the highlighter the editor has, None if it has none
SelectedLanguage == IF attr = 0 THEN None ELSE attached[attr].language

\* the rows of the suffix table on which the specification and the code agree
AgreedRows ==
  { <<<<".","p","y">>, "python">>,
    <<<<".","p","y","w">>, "python">>,
    <<<<".","c">>, "c">>,
    <<<<".","h">>, "c">>,
    <<<<".","c","p","p">>, "cpp">>,
    <<<<".","c","c">>, "cpp">>,
    <<<<".","c","x","x">>, "cpp">>,
    <<<<".","h","p","p">>, "cpp">>,
    <<<<".","j","a","v","a">>, "java">>,
    <<<<".","j","s">>, "javascript">>,
    <<<<".","j","s","x">>, "javascript">>,
    <<<<".","t","s">>, "typescript">>,
    <<<<".","t","s","x">>, "typescript">>,
    <<<<".","c","s">>, "csharp">>,
    <<<<".","p","h","p">>, "php">>,
    <<<<".","h","t","m","l">>, "html">>,
    <<<<".","h","t","m">>, "html">>,
    <<<<".","c","s","s">>, "css">>,
    <<<<".","j","s","o","n">>, "json">>,
    <<<<".","x","m","l">>, "xml">>,
    <<<<".","s","h">>, "generic">>,
    <<<<".","b","a","s","h">>, "generic">>,
    <<<<".","p","s","1">>, "generic">>,
    <<<<".","k","t">>, "java">>,
    <<<<".","k","t","s">>, "java">> }

\* .rs, .go and .swift as the code has them, and as the specification states them
RoughRows ==
  { <<<<".","r","s">>, "cpp">>,
    <<<<".","g","o">>, "cpp">>,
    <<<<".","s","w","i","f","t">>, "cpp">> }
RoughRowsAsStated ==
  { <<<<".","r","s">>, "generic">>,
    <<<<".","g","o">>, "generic">>,
    <<<<".","s","w","i","f","t">>, "generic">> }

\* after Save As the editor's highlighter is the one the rows give for the file name,
\* and there is none when the suffix is in no row
SuffixTable(rows) ==
  saves > 0
    => /\ \A row \in rows : filepath = Named(row[1]) => SelectedLanguage = row[2]
       /\ filepath \in UnmappedPaths => SelectedLanguage = None

\* C9: apply_syntax_highlighting selects the profile from the file suffix by the
\* table, in which .rs, .go and .swift select cpp, .kt and .kts java, and a suffix
\* the table does not hold selects no highlighting
C9_SuffixTable == SuffixTable(AgreedRows \cup RoughRows)

\* C9 as stated: .rs, .go and .swift select generic
C9_SuffixTableAsStated == SuffixTable(AgreedRows \cup RoughRowsAsStated)

\* a file saved under a .rs name, highlighted as cpp
C9_Witness ==
  /\ saves > 0
  /\ filepath = Named(<<".","r","s">>)
  /\ SelectedLanguage = "cpp"

\* the setFormat call c covers the character at offset p
Covers(c, p) == c.start <= p /\ p < c.start + c.length

\* the calls of run r that cover offset p, by their place in the order of the calls
CoveringCalls(r, p) == {k \in 1..Len(r.calls) : Covers(r.calls[k], p)}

\* the last of a non-empty set of places
LastOf(K) == CHOOSE k \in K : \A j \in K : j <= k

\* the calls of run r are those of rule 1, then rule 2, ..., then the block-comment scan
InPaintOrder(r) ==
  \A j \in 1..Len(r.calls) : \A k \in (j + 1)..Len(r.calls) :
    /\ r.calls[j].by = "block" => r.calls[k].by = "block"
    /\ (r.calls[j].by = "rule" /\ r.calls[k].by = "rule") => r.calls[j].rule <= r.calls[k].rule

\* every character of the block of run r shows the format of the last call covering it
LastCallShown(r) ==
  \A p \in 0..(Len(r.text) - 1) :
    /\ formats[r.block][p + 1] =
         IF CoveringCalls(r, p) = {} THEN NoFormat
         ELSE r.calls[LastOf(CoveringCalls(r, p))].fmt
    /\ (\E k \in CoveringCalls(r, p) : r.calls[k].by = "block")
         => formats[r.block][p + 1] = comment_fmt

\* C11: the spans of a line are painted rule by rule in list order and the
\* block-comment spans after them; a character shows the style of the span painted
\* last, so a block-comment span overrides every rule span it overlaps
C11_PaintOrder ==
  \A n \in 1..Len(runs) : InPaintOrder(runs[n]) /\ LastCallShown(runs[n])

\* a number inside a block comment: painted by its rule, shown as comment
C11_Witness ==
  \E n \in 1..Len(runs) : \E p \in 0..(Len(runs[n].text) - 1) :
    /\ \E k \in CoveringCalls(runs[n], p) :
         runs[n].calls[k].by = "rule" /\ runs[n].calls[k].fmt = num_fmt
    /\ \E k \in CoveringCalls(runs[n], p) : runs[n].calls[k].by = "block"
    /\ formats[runs[n].block][p + 1] = comment_fmt

\* the place of the rule with the given pattern in the rule list of the JSON profile
JsonRuleIndex(pattern) == CHOOSE i \in 1..Len(JsonRules) : JsonRules[i].re = pattern

\* the call the JSON rule with the given pattern makes for "key", quotes included
KeySpanCall(pattern) ==
  Call(1, 5, JsonRules[JsonRuleIndex(pattern)].fmt, "rule", JsonRuleIndex(pattern))

\* the later of the key rule and the string rule in the rule list
LaterOfKeyAndString ==
  IF JsonRuleIndex(JsonKey) > JsonRuleIndex(JsonString) THEN JsonKey ELSE JsonString

\* the runs of the JSON profile on {"key": "value"}
JsonRuns == {n \in 1..Len(runs) : runs[n].h.language = "json" /\ runs[n].text = JsonLine}

\* C12: in the JSON profile on {"key": "value"} the key rule and the string rule both
\* match "key" with its quotes, and the span shows the style of the one of the two
\* that is later in the rule list
C12_JsonKeyAndString ==
  \A n \in JsonRuns :
    /\ \E k \in 1..Len(runs[n].calls) : runs[n].calls[k] = KeySpanCall(JsonKey)
    /\ \E k \in 1..Len(runs[n].calls) : runs[n].calls[k] = KeySpanCall(JsonString)
    /\ \A p \in 1..5 :
         formats[runs[n].block][p + 1] = JsonRules[JsonRuleIndex(LaterOfKeyAndString)].fmt

\* the line has been highlighted and "key" shows the style of strings
C12_Witness ==
  \E n \in JsonRuns :
    /\ JsonRuleIndex(JsonKey) < JsonRuleIndex(JsonString)
    /\ \A p \in 1..5 : formats[runs[n].block][p + 1] = html_str_fmt

\* the word lists of the profiles, their words as sets, and their patterns
WordLists == <<PythonKeywords, PythonTypes, CKeywords, CTypes, JsKeywords, PhpKeywords>>
WordSet(W) == {W[i] : i \in 1..Len(W)}
WordsOf ==
  <<WordSet(PythonKeywords), WordSet(PythonTypes), WordSet(CKeywords), WordSet(CTypes),
    WordSet(JsKeywords), WordSet(PhpKeywords)>>
WordPatterns ==
  <<WordPattern(PythonKeywords), WordPattern(PythonTypes), WordPattern(CKeywords),
    WordPattern(CTypes), WordPattern(JsKeywords), WordPattern(PhpKeywords)>>

\* the rules _build_rules makes with _word_pattern: <<i, j>> stands for rule i of
\* the language being made from word list j
WordRules(lang) ==
  CASE lang = "python" -> << <<1, 1>>, <<2, 2>> >>
    [] lang \in {"c", "cpp", "java", "csharp"} -> << <<1, 3>>, <<2, 4>> >>
    [] lang \in {"javascript", "typescript"} -> << <<1, 5>> >>
    [] lang = "php" -> << <<2, 6>> >>
    [] OTHER -> << >>

\* the characters that make up words: letters, digits and the underscore
InWord(c) == c \in WordChars

\* the length characters of text from offset start on are a whole word: the
\* characters before and after them, if any, are not word characters
WholeWord(text, start, length) ==
  /\ length > 0
  /\ start + length <= Len(text)
  /\ \A p \in (start + 1)..(start + length) : InWord(text[p])
  /\ start = 0 \/ ~InWord(text[start])
  /\ start + length = Len(text) \/ ~InWord(text[start + length + 1])

\* rule i of run r has a call for the span of length characters from start
RuleCallAt(r, i, start, length) ==
  \E k \in 1..Len(r.calls) :
    /\ r.calls[k].by = "rule" /\ r.calls[k].rule = i
    /\ r.calls[k].start = start /\ r.calls[k].length = length

\* the calls of rule i of a run are whole words of list j, and every whole
\* word of the text that is in the list has a call
WholeWordsOnly(r, i, j) ==
  /\ \A k \in 1..Len(r.calls) :
       (r.calls[k].by = "rule" /\ r.calls[k].rule = i) =>
         /\ WholeWord(r.text, r.calls[k].start, r.calls[k].length)
         /\ SubSeq(r.text, r.calls[k].start + 1,
                   r.calls[k].start + r.calls[k].length) \in WordsOf[j]
  /\ \A start \in 0..Len(r.text) : \A length \in 1..(Len(r.text) - start) :
       (WholeWord(r.text, start, length)
          /\ SubSeq(r.text, start + 1, start + length) \in WordsOf[j])
         => RuleCallAt(r, i, start, length)

\* rule i of the highlighter of run r is the pattern of word list j, and its calls
\* are the whole words
WordRuleChecked(r, i, j) ==
  /\ RulesOf(r.h)[i].re = WordPatterns[j]
  /\ WholeWordsOnly(r, i, j)

\* the runs of the Python profile on a text
PythonRuns(text) ==
  {n \in 1..Len(runs) : runs[n].h.language = "python" /\ runs[n].text = text}

\* C13: a keyword rule matches whole words only: its spans are exactly the words of
\* its list that stand between word boundaries; so the Python profile has no keyword
\* span on "classify(x)" and the keyword span [0,5) on "class Foo:"
C13_KeywordsWholeWords ==
  /\ \A n \in 1..Len(runs) : \A w \in 1..Len(WordRules(runs[n].h.language)) :
       WordRuleChecked(runs[n], WordRules(runs[n].h.language)[w][1],
                       WordRules(runs[n].h.language)[w][2])
  /\ \A n \in PythonRuns(ClassifyCall) :
       \A k \in 1..Len(runs[n].calls) : runs[n].calls[k].fmt # kw_fmt
  /\ \A n \in PythonRuns(ClassFoo) :
       \E k \in 1..Len(runs[n].calls) : runs[n].calls[k] = Call(0, 5, kw_fmt, "rule", 1)

\* "classify(x)" highlighted in the Python profile: a function name, no keyword
C13_Witness ==
  \E n \in PythonRuns(ClassifyCall) :
    /\ RulesOf(runs[n].h)[1].re = WordPatterns[1]
    /\ \E k \in 1..Len(runs[n].calls) : runs[n].calls[k] = Call(0, 8, func_fmt, "rule", 3)
    /\ \A k \in 1..Len(runs[n].calls) : runs[n].calls[k].rule # 1


\* highlightBlock run a second time on the block of run r: the text and the state
\* of the previous block are the same, the block has the state the first run left
Again(r) == highlightBlock(r.h, r.text, r.incoming, r.outgoing)

\* C14: highlighting a line a second time, its text and incoming state unchanged,
\* gives the same setFormat calls, the same painted formats and the same outgoing
\* state as the first time
C14_Idempotent ==
  \A n \in 1..Len(runs) :
    /\ Again(runs[n]).calls = runs[n].calls
    /\ Again(runs[n]).state = runs[n].outgoing
    /\ Paint(runs[n].text, Again(runs[n]).calls)
         = Paint(runs[n].text, runs[n].calls)

\* a run that painted a comment and changed the state its block had stored
C14_Witness ==
  \E n \in 1..Len(runs) :
    /\ runs[n].outgoing # runs[n].before
    /\ runs[n].incoming = OpenState
    /\ \E k \in 1..Len(runs[n].calls) : runs[n].calls[k].by = "block"
    /\ Again(runs[n]).state = runs[n].outgoing

\* C15: the suffix is looked up without regard to case: a name selects the language
\* the table gives for the name in lower case, so A.PY, a.Py and a.py all select
\* python, and a suffix the table does not hold in lower case selects nothing
C15_CaseInsensitive ==
  saves > 0 =>
    /\ \A i \in 1..Len(mapping) :
         lower(filepath) = Named(mapping[i][1]) => SelectedLanguage = mapping[i][2]
    /\ filepath \in {<<"A",".","P","Y">>, <<"a",".","P","y">>, <<"a",".","p","y">>}
         => SelectedLanguage = "python"
    /\ lower(filepath) \in UnmappedPaths => SelectedLanguage = None

\* A.PY was saved and the Python highlighter is attached
C15_Witness ==
  /\ saves > 0
  /\ filepath = <<"A",".","P","Y">>
  /\ attr # 0
  /\ attached[attr].language = "python"

\* the rules of a highlighter whose pattern does not compile
MalformedRules(h) == {i \in 1..Len(RulesOf(h)) : ~isValid(RulesOf(h)[i].re)}

Families == {{"c", "cpp", "java", "csharp"}, {"javascript", "typescript"}}

\* the run r made again by the highlighter of another language key
UnderKey(r, key) == highlightBlock(CodeHighlighter(key, <<>>), r.text, r.incoming, r.before)

\* one key of a family, with which the others are compared
FirstKey(F) == IF "c" \in F THEN "c" ELSE "javascript"

\* two keys have the same rule list and the same block-comment rule
SameProfile(a, b) ==
  /\ build_rules(a).rules = build_rules(b).rules
  /\ build_rules(a).multi_line_comment = build_rules(b).multi_line_comment

\* the keys of each family have one profile
ProfilesAlike == \A F \in Families : \A a \in F, b \in F : SameProfile(a, b)

\* C17: c, cpp, java and csharp have one rule list and one block-comment rule, and
\* so have javascript and typescript: every run under a key of a family has the
\* setFormat calls and the outgoing state that one and the same key of the family
\* gives for the same text, incoming state and stored state, so any two keys agree
C17_FamiliesAlike ==
  /\ ProfilesAlike
  /\ \A F \in Families : \A n \in 1..Len(runs) :
         (runs[n].h.language \in F /\ runs[n].h.extra = <<>>) =>
           /\ UnderKey(runs[n], FirstKey(F)).calls = runs[n].calls
           /\ UnderKey(runs[n], FirstKey(F)).state = runs[n].outgoing

\* a run under csharp that painted by a rule and painted a block comment, as the
\* run under c does
C17_Witness ==
  \E n \in 1..Len(runs) :
    /\ runs[n].h = CodeHighlighter("csharp", <<>>)
    /\ \E k \in 1..Len(runs[n].calls) : runs[n].calls[k].by = "block"
    /\ \E k \in 1..Len(runs[n].calls) : runs[n].calls[k].by = "rule"
    /\ UnderKey(runs[n], "c").calls = runs[n].calls

\* the text begins with the start delimiter of the block comment of highlighter h
StartsWithDelimiter(h, text) ==
  BlockCommentOf(h).present /\ FirstStartIndex(BlockCommentOf(h), text) = 0

\* run r painted a block comment from position 0
CommentFromZero(r) ==
  \E k \in 1..Len(r.calls) : r.calls[k].by = "block" /\ r.calls[k].start = 0

\* C18: the first line has no predecessor and its incoming state is Clean whatever
\* the states stored in the document: it is painted as a block comment from
\* position 0 only if its own text starts with the start delimiter
C18_FirstLineClean ==
  \A n \in 1..Len(runs) :
    runs[n].block = 1 =>
      /\ LineState(runs[n].incoming) = "Clean"
      /\ CommentFromZero(runs[n]) => StartsWithDelimiter(runs[n].h, runs[n].text)

\* the first line is highlighted while the line after it is inside a block comment
\* and the first line itself had the state of one stored; it is painted as no comment
C18_Witness ==
  \E n \in 1..Len(runs) :
    /\ runs[n].block = 1
    /\ BlockCommentOf(runs[n].h).present
    /\ runs[n].before = OpenState
    /\ runs[n].text # <<>>
    /\ ~CommentFromZero(runs[n])
    /\ Len(userState) > 1 /\ userState[2] = OpenState

\* the last operation removed a tab whose document was modified
ClosedModified == lastOp.closed # <<>> /\ lastOp.closed[1].modified

\* C19: close_tab removes a tab whose document is modified only if the user answered
\* No, or answered Yes and the text was written to a file; after Yes and a save that
\* did not complete the tab stays open
C19_NoUnsavedTextDiscarded ==
  ClosedModified =>
    \/ lastOp.choice = "No"
    \/ lastOp.choice = "Yes" /\ lastOp.written

\* the tab widget holds at least one tab; the last tab is the plus tab and no other is
TabShape ==
  /\ Len(tabs) >= 1
  /\ tabs[Len(tabs)].data = "plus"
  /\ \A i \in 1..(Len(tabs) - 1) : tabs[i].data # "plus"

\* a step that is close_tab on the index of the plus tab changes nothing
PlusCloseIdle ==
  (lastOp'.op = "close_tab" /\ lastOp'.index = Len(tabs) - 1)
    => (tabs' = tabs /\ current' = current /\ files' = files)

\* a step that adds a tab puts the new editor tab immediately before the plus tab,
\* leaves the other tabs in their places and makes the new tab current
NewTabBeforePlus ==
  Len(tabs') > Len(tabs) =>
    /\ Len(tabs') = Len(tabs) + 1
    /\ tabs'[Len(tabs')].data = "plus"
    /\ tabs'[Len(tabs') - 1].data # "plus"
    /\ \A i \in 1..(Len(tabs) - 1) :
         tabs'[i].data = tabs[i].data /\ tabs'[i].text = tabs[i].text
           /\ tabs'[i].filepath = tabs[i].filepath
    /\ current' = Len(tabs') - 2

\* C20: after any sequence of new-tab, open-file, close-tab and plus-tab click
\* operations the tab widget holds at least one tab and exactly one plus tab, which
\* is the last; close_tab on the index of the plus tab changes nothing; every new
\* editor tab is inserted immediately before the plus tab and becomes current
C20_PlusTabLast == []TabShape /\ [][PlusCloseIdle /\ NewTabBeforePlus]_vars

\* a click on the plus tab has added a second editor tab, which is current and
\* Untitled, behind a tab that holds a file
C20_Witness ==
  /\ lastOp.op = "mouseReleaseEvent"
  /\ lastOp.index = 1
  /\ Len(tabs) = 3
  /\ current = 1
  /\ tabs[1].filepath # NoPath
  /\ tabs[2].title = Untitled

\* a step that is save_file or save_file_as on a tab that has no editor
SaveWithoutEditor ==
  /\ lastOp'.op \in {"save_file", "save_file_as"}
  /\ tabs[current + 1].data = "plus"

\* C21: save_file and save_file_as write a file only with the text of an editor tab;
\* when the tab they act on has no editor (the plus tab is current) no file on disk is
\* created or changed, whatever path the Save As dialog returns
C21_NoFileWithoutEditor == [][SaveWithoutEditor => files' = files]_vars

\* the tabs before the plus tab that are titled Untitled and have empty text
\* (positions in tabs, from 1)
FreeTabs(ts) ==
  {i \in 1..(Len(ts) - 1) : ts[i].title = Untitled /\ ts[i].text = <<>>}

\* tab t holds the file at path with the given content
HoldsFile(t, path, content) ==
  t.text = content /\ t.filepath = path /\ t.title = PathName(path) /\ t.data # "plus"

\* the text, the file path and the title of tab t are those of tab u
SameTab(t, u) ==
  t.text = u.text /\ t.filepath = u.filepath /\ t.title = u.title /\ t.data = u.data

\* the step put the file in the tab at position k, which was there before
LoadedInto(k, path) ==
  /\ Len(tabs') = Len(tabs)
  /\ HoldsFile(tabs'[k], path, files[path])
  /\ current' = k - 1
  /\ \A i \in 1..Len(tabs) : i # k => SameTab(tabs'[i], tabs[i])

\* the step put the file in a new tab immediately before the plus tab
LoadedIntoNew(path) ==
  /\ Len(tabs') = Len(tabs) + 1
  /\ HoldsFile(tabs'[Len(tabs)], path, files[path])
  /\ current' = Len(tabs) - 1
  /\ \A i \in 1..(Len(tabs) - 1) : SameTab(tabs'[i], tabs[i])
  /\ SameTab(tabs'[Len(tabs) + 1], tabs[Len(tabs)])

\* what a step of _load_file_into_tab(path) does
LoadStep(path, readable) ==
  IF ~readable THEN tabs' = tabs /\ current' = current
  ELSE IF FreeTabs(tabs) # {}
       THEN \E k \in FreeTabs(tabs) :
              (\A j \in FreeTabs(tabs) : k <= j) /\ LoadedInto(k, path)
       ELSE LoadedIntoNew(path)

\* C22: a successful _load_file_into_tab(path) puts the content of the file in the
\* first tab titled Untitled with empty text or, if there is none, in a new tab before
\* the plus tab; that tab is then current, has path as its file path and the base name
\* as its title, and the other tabs keep text, file path and title; when the file
\* cannot be read no tab is added or changed
C22_LoadFrame ==
  [][(lastOp'.op = "open_file" /\ lastOp'.input[1] # NoPath)
       => LoadStep(lastOp'.input[1], lastOp'.input[2])]_vars

\* a file was loaded into the first of two empty Untitled tabs
C22_Witness ==
  /\ lastOp.op = "open_file"
  /\ lastOp.input = <<<<"a",".","c">>, TRUE>>
  /\ Len(tabs) = 3
  /\ current = 0
  /\ HoldsFile(tabs[1], <<"a",".","c">>, files[<<"a",".","c">>])
  /\ tabs[2].title = Untitled /\ tabs[2].text = <<>>

\* the tabs that have an editor (positions in tabs, from 1)
Editors == {i \in 1..Len(tabs) : tabs[i].data # "plus"}

\* the zoom label shows the percentage of the font of the editor in the current tab
LabelOfCurrent ==
  (current + 1) \in Editors
    => lbl_zoom = (200 * tabs[current + 1].size + 11) \div 22

\* C23: after any sequence of zoom-in, zoom-out, reset-zoom, Ctrl+wheel, new-tab and
\* tab-switch operations the zoom label shows round(pointSize / 11 * 100) percent of
\* the font of the editor in the current tab (100 for a fresh tab at size 11), and
\* the point size of every editor is at least 6
C23_ZoomLabel ==
  /\ LabelOfCurrent
  /\ \A i \in Editors : tabs[i].size >= 6

\* the point size of every editor is at least 6, and the label shows the percentage of
\* the editor that was zoomed last
C23_MinPointSize ==
  /\ \A i \in Editors : tabs[i].size >= 6
  /\ lastOp.op \in {"zoom_in_current", "zoom_out_current", "reset_zoom", "wheelEvent"}
       => LabelOfCurrent

\* zooming out at the least size
C23_AtMinimum ==
  /\ lastOp.op \in {"zoom_out_current", "wheelEvent"}
  /\ (current + 1) \in Editors
  /\ tabs[current + 1].size = 6
  /\ lbl_zoom = 55

\* text with every occurrence of find_text that is found from left to right, each
\* starting where the one before ended, replaced by rep_text
RECURSIVE ReplacedOnce(_, _, _)
ReplacedOnce(text, find_text, rep_text) ==
  IF Len(text) < Len(find_text) THEN text
  ELSE IF lower(SubSeq(text, 1, Len(find_text))) = lower(find_text)
  THEN rep_text \o ReplacedOnce(SubSeq(text, Len(find_text) + 1, Len(text)),
                                find_text, rep_text)
  ELSE <<text[1]>> \o ReplacedOnce(Tail(text), find_text, rep_text)

\* a step of _do_replace_all ends and leaves the text it should
ReplaceAllStep ==
  lastFind'.op = "do_replace_all"
    => /\ lastFind'.finished
       /\ edText' = IF lastFind'.find = <<>> THEN edText
                    ELSE ReplacedOnce(edText, lastFind'.find, lastFind'.rep)

\* C24: _do_replace_all terminates for every document text, search text and
\* replacement, also when the replacement contains the search text; the replacements
\* are not searched again, and the result is the text with every occurrence found from
\* left to right, without overlap, replaced once; an empty search text leaves the
\* document unchanged
C24_ReplaceAllEnds == [][ReplaceAllStep]_vars

\* 'a' was replaced by 'aa' in a text of four 'a'
C24_Witness ==
  /\ lastFind.op = "do_replace_all"
  /\ lastFind.find = <<"a">> /\ lastFind.rep = <<"a", "a">>
  /\ lastFind.finished
  /\ edText = <<"a","a","a","a","a","a","a","a">>

\* the last index below pos at which text occurs with its end at or before pos,
\* -1 if there is none
LastBefore(full, text, pos) ==
  LET I == {i \in 0..(pos - Len(text)) : SubSeq(full, i + 1, i + Len(text)) = text}
  IN  IF I = {} THEN -1 ELSE CHOOSE i \in I : \A j \in I : i >= j

\* where the search of Find Previous starts
CursorStart == IF edAnchor < edPosition THEN edAnchor ELSE edPosition

\* a step of Find Previous selects the last occurrence that ends at or before the
\* cursor or the selection start, when there is one
FindPreviousStep ==
  (/\ lastFind'.op \in {"find_previous", "do_find"}
   /\ lastFind'.find # <<>>
   /\ LastBefore(edText, lastFind'.find, CursorStart) # -1)
    => /\ edAnchor' = LastBefore(edText, lastFind'.find, CursorStart)
       /\ edPosition' = edAnchor' + Len(lastFind'.find)

\* C25: Find Previous (find_previous without a dialog, _do_find with forward=False)
\* selects the last occurrence of the search text that lies entirely before the cursor
\* or the selection start, also one that ends exactly there, so that repeated steps go
\* backwards through adjacent occurrences and never select the same one again while an
\* earlier one exists
C25_FindPrevious == [][FindPreviousStep]_vars
====
